---------------------------- MODULE Spec2Model ----------------------------
(***************************************************************************)
(* zkSealevel off-chain core: the submitter (orchestrator HTTP server) and *)
(* the indexer, modelled as state machines.                                *)
(*                                                                         *)
(* Submitter: src/unnamed/part_016 (server), src/unnamed/part_017 (crypto),*)
(*            src/orchestrator/src/onchain.ts, src/orchestrator/src/errors.ts *)
(* Indexer:   src/unnamed/part_007 (main loop), src/indexer/src/db.ts      *)
(***************************************************************************)
EXTENDS Integers, Sequences, FiniteSets, TLC

\* ------------------------------------------------------------------ bounds
\* Total number of HTTP requests that arrive in one behaviour.
MaxRequests == 3
\* Number of clock advances in one behaviour of the submitter.
MaxTicks == 1
\* Number of polling cycles the indexer starts in one behaviour.
MaxCycles == 2
\* Number of changes on the ledger (new records, status changes) in one behaviour.
MaxLedgerEvents == 2

\* ------------------------------------------------------- program constants
\* RATELIMIT_MAX is read from the environment (default "60"); it is set to 2 here.
RATELIMIT_MAX == 2
RATELIMIT_WINDOW_MS == 60000
IDEMP_TTL_MS == 86400000
IDEMP_MAX_ENTRIES == 100
IDEMP_SWEEP_EVERY == 100
MAX_SLOTS_PER_ARTIFACT == 2048
MAX_ARTIFACT_SIZE_BYTES == 524288
HEX32_LEN == 64

\* ------------------------------------------------------------ JS values
\* An absent header / undefined value.
Undefined == [t |-> "undefined"]
Num(n) == [t |-> "number", v |-> n]
Str(s) == [t |-> "string", v |-> s]
Rep(c, n) == [i \in 1..n |-> c]

typeof(x) == x.t

HexLower == {"0", "1", "2", "3", "4", "5", "6", "7", "8", "9",
             "a", "b", "c", "d", "e", "f"}
HexUpper == {"A", "B", "C", "D", "E", "F"}

\* /^[0-9a-fA-F]{64}$/.test(s), s a sequence of characters
isHex32(s) ==
    /\ Len(s) = HEX32_LEN
    /\ \A i \in 1..Len(s) : s[i] \in HexLower \cup HexUpper

toLowerChar(c) ==
    CASE c = "A" -> "a" [] c = "B" -> "b" [] c = "C" -> "c"
      [] c = "D" -> "d" [] c = "E" -> "e" [] c = "F" -> "f"
      [] c = "G" -> "g" [] OTHER -> c

\* normalizeHex32: only called on strings that passed isHex32 in the routes
normalizeHex32(s) == [i \in 1..Len(s) |-> toLowerChar(s[i])]

\* String.prototype.trim on a sequence of characters
RECURSIVE trimLeft(_)
trimLeft(s) ==
    IF s = <<>> THEN s
    ELSE IF Head(s) = " " THEN trimLeft(Tail(s)) ELSE s

RECURSIVE trimRight(_)
trimRight(s) ==
    IF s = <<>> THEN s
    ELSE IF s[Len(s)] = " " THEN trimRight(SubSeq(s, 1, Len(s) - 1)) ELSE s

trim(s) == trimRight(trimLeft(s))

\* Number of decimal digits of a non-negative integer (JSON.stringify)
RECURSIVE Digits(_)
Digits(n) == IF n < 10 THEN 1 ELSE 1 + Digits(n \div 10)


NumLen(n) == IF n < 0 THEN 1 + Digits(0 - n) ELSE Digits(n)

\* ------------------------------------------------- byte strings (crypto.ts)
\* A byte string is a sequence of chunks [w |-> width in bytes, v |-> content];
\* Buffer.concat is sequence concatenation.  Integers are encoded to their
\* bytes; 32-byte keys and digests are opaque values of the stated width.
RECURSIVE LEBytes(_, _)
LEBytes(n, k) == IF k = 0 THEN <<>> ELSE <<n % 256>> \o LEBytes(n \div 256, k - 1)

RECURSIVE LEValue(_)
LEValue(bs) == IF bs = <<>> THEN 0 ELSE Head(bs) + 256 * LEValue(Tail(bs))

\* Buffer.writeBigUInt64LE throws a RangeError outside 0 .. 2^64-1
u64leThrows(n) == n < 0
u64le(n) == [w |-> 8, v |-> LEBytes(n, 8)]
i64le(n) == [w |-> 8, v |-> LEBytes(n, 8)]
u32le(n) == [w |-> 4, v |-> LEBytes(n, 4)]
Ascii(s, n) == [w |-> n, v |-> s]
Raw(x, n) == [w |-> n, v |-> x]

RECURSIVE ByteLen(_)
ByteLen(chunks) == IF chunks = <<>> THEN 0 ELSE Head(chunks).w + ByteLen(Tail(chunks))

\* blake3: a collision-free digest of its input, 32 bytes wide
blake3hash(x) == Raw([blake3 |-> x], 32)
\* first 8 bytes of SHA-256 of a label
sha256_8(label) == Raw([sha256_8 |-> label], 8)

\* nacl.sign.detached(message, secretKey); a secret key is named by its public key
Sign(msg, secretKey) == [msg |-> msg, by |-> secretKey]
PubOfSecret(secretKey) == secretKey
Verifies(sig, msg, pub) == sig.msg = msg /\ sig.by = pub

\* a preimage that repeats end_slot where seq belongs
buildDSEndTwice(chainId, programId, proofHash, startSlot, endSlot, seq) ==
    LET ds == << Ascii("zKSL/anchor/v1", 14), u64le(chainId), Raw(programId, 32), proofHash,
                 u64le(startSlot), u64le(endSlot), u64le(endSlot) >>
    IN [ds |-> ds, dsHash |-> blake3hash(ds)]

buildDS(chainId, programId, proofHash, startSlot, endSlot, seq) ==
    LET ds == << Ascii("zKSL/anchor/v1", 14),
                 u64le(chainId),
                 Raw(programId, 32),
                 proofHash,
                 u64le(startSlot),
                 u64le(endSlot),
                 u64le(seq) >>
    IN [ds |-> ds, dsHash |-> blake3hash(ds)]

\* a payload with start_slot and end_slot ahead of seq
encodeAnchorProofArgsBorshSlotsFirst(p) ==
    << sha256_8("global:anchor_proof"),
       p.artifactId, p.proofHash32, p.startLe, p.endLe, p.seqLe,
       u32le(p.artifactLen), p.stateRootBefore, p.stateRootAfter,
       Raw(p.aggregatorPubkey, 32), p.timestampLe, p.dsHash32 >>

\* encodeAnchorProofArgsBorsh (part_017:107-136)
encodeAnchorProofArgsBorsh(p) ==
    << sha256_8("global:anchor_proof"),
       p.artifactId, p.proofHash32, p.seqLe, p.startLe, p.endLe,
       u32le(p.artifactLen), p.stateRootBefore, p.stateRootAfter,
       Raw(p.aggregatorPubkey, 32), p.timestampLe, p.dsHash32 >>

\* web3.PublicKey.findProgramAddressSync(seeds, programId)
findProgramAddressSync(seeds, programId) == [pda |-> seeds, program |-> programId]

\* uuidFromHash32: the identifier derived from the first 16 bytes of a digest
uuidFromHash32(hash) == [uuid |-> hash.v]
uuidToBytes(u) == Raw([uuidBytes |-> u], 16)
hexTo32(s) == Raw([hex |-> s], 32)

\* Buffer.toString("hex"): two lower-case digits per byte
HexDigits == << "0", "1", "2", "3", "4", "5", "6", "7", "8", "9", "a", "b", "c", "d", "e", "f" >>

RECURSIVE toHex(_)
toHex(bytes) ==
    IF bytes = << >> THEN << >>
    ELSE << HexDigits[(Head(bytes) \div 16) + 1], HexDigits[(Head(bytes) % 16) + 1] >>
         \o toHex(Tail(bytes))

\* the version nibble set, the variant bits left as they come
uuidFromHash32BytesNoVariant(hash) ==
    IF Len(hash) < 16 THEN [threw |-> TRUE]
    ELSE LET b0 == SubSeq(hash, 1, 16)
             b == [b0 EXCEPT ![7] = (b0[7] % 16) + 64]
             hex == toHex(b)
         IN [threw |-> FALSE,
             ret |-> SubSeq(hex, 1, 8) \o <<"-">> \o SubSeq(hex, 9, 12) \o <<"-">>
                     \o SubSeq(hex, 13, 16) \o <<"-">> \o SubSeq(hex, 17, 20) \o <<"-">>
                     \o SubSeq(hex, 21, 32)]

\* uuidFromHash32 (part_017:70-82) on a hash given byte by byte:
\* (b & 0x0f) | 0x40 at offset 6, (b & 0x3f) | 0x80 at offset 8
uuidFromHash32Bytes(hash) ==
    IF Len(hash) < 16 THEN [threw |-> TRUE]
    ELSE LET b0 == SubSeq(hash, 1, 16)
             b == [b0 EXCEPT ![7] = (b0[7] % 16) + 64, ![9] = (b0[9] % 64) + 128]
             hex == toHex(b)
         IN [threw |-> FALSE,
             ret |-> SubSeq(hex, 1, 8) \o <<"-">> \o SubSeq(hex, 9, 12) \o <<"-">>
                     \o SubSeq(hex, 13, 16) \o <<"-">> \o SubSeq(hex, 17, 20) \o <<"-">>
                     \o SubSeq(hex, 21, 32)]

\* canonicalize of the four minimal artifact fields (keys are sorted)
canonicalMinimal(start, end, srb, sra) ==
    [end_slot |-> end, start_slot |-> start,
     state_root_after |-> sra, state_root_before |-> srb]

\* Buffer.byteLength of the canonical JSON that includes artifact_id:
\* 253 bytes of keys, punctuation, uuid and roots, plus the two numbers
canonicalLen(start, end) == 253 + NumLen(start) + NumLen(end)

proofHashOf(start, end, srb, sra) == blake3hash(canonicalMinimal(start, end, srb, sra))


\* ================================================================ state
VARIABLES
    \* --- submitter process (part_016)
    env,               \* process.env as read at module load (fixed)
    now,               \* Date.now(), milliseconds
    ticks,             \* clock advances so far
    nreq,              \* requests that have arrived so far
    artifacts,         \* const artifacts = new Map(): artifact id -> artifact
    files,             \* artifact files on disk: <<day, artifact id>> -> canonical JSON
    fileWrites,        \* number of fsp.writeFile calls made
    idempotencyCache,  \* Map in insertion order: sequence of [key, status, body, ts]
    idemSetCounter,
    localSeq,
    rl,                \* rate limiter: ip -> [count, ts]
    reqs,              \* the requests in flight or last answered, one per connection
    answers,           \* history: every answer given to a POST that carried a key
    \* --- ledger as seen through the RPC node
    config,            \* configuration account, or Undefined
    aggState,          \* aggregator-state account [last_seq], or Undefined
    txs,               \* every transaction the submitter has sent
    \* --- indexer process (part_007) and its database
    proofsTable,       \* rows of table proofs
    validatorsTable,   \* rows of table validators
    indexerState,      \* the row id = 1 of table indexer_state
    accounts,          \* the program-owned accounts on the ledger, decoded
    sigStatus,         \* what the ledger reports for each transaction signature
    ledgerEvents,      \* number of ledger changes so far
    idxPc,             \* where the indexer's main loop stands
    idxCycles,         \* number of polling cycles started
    idxLog,            \* history: what the last scan and reconciliation did
    scanAccounts,      \* const accounts of a scanOnce under way (part_007:57), else Null
    call               \* a function called on its own: [arg, out], out Null until it returns

subVars == << env, now, ticks, nreq, artifacts, files, fileWrites, idempotencyCache,
              idemSetCounter, localSeq, rl, reqs, answers, config, aggState, txs >>
idxVars == << proofsTable, validatorsTable, indexerState, accounts, sigStatus, ledgerEvents,
             idxPc, idxCycles, idxLog, scanAccounts, call >>
\* the submitter's state apart from the clock
subStore == << env, nreq, artifacts, files, fileWrites, idempotencyCache, idemSetCounter,
               localSeq, rl, reqs, answers, config, aggState, txs >>
vars == << subVars, idxVars >>

Conns == {1, 2}
PROGRAM_ID == "program"

Null == [t |-> "null"]

\* error body { error: { code, message, details } }
Err(code, message) == [kind |-> "error", code |-> code, message |-> message]

IdleReq ==
    [pc |-> "idle", id |-> 0, at |-> 0, req |-> Undefined, key |-> Null, wrapped |-> FALSE,
     ran |-> FALSE, resp |-> Undefined, prior |-> {}, rlFull |-> FALSE,
     art |-> Undefined, dir |-> 0, lastSeq |-> Undefined, cfg |-> Undefined,
     tx |-> Undefined]

\* ------------------------------------------------------------ middleware
\* the header taken as it comes, without trim()
getIdemKeyUntrimmed(r) ==
    LET k == r.idem IN
    IF typeof(k) = "undefined" \/ k.v = <<>> THEN Null ELSE Str(k.v)

\* getIdemKey (part_016:431-437)
getIdemKey(r) ==
    LET k == r.idem IN
    IF typeof(k) = "undefined" \/ k.v = <<>> THEN Null
    ELSE LET v == trim(k.v) IN IF Len(v) > 0 THEN Str(v) ELSE Null

CacheKeys(cache) == {cache[i].key : i \in DOMAIN cache}
CacheGet(cache, key) == cache[CHOOSE i \in DOMAIN cache : cache[i].key = key]

\* Map.prototype.set: an existing key keeps its place in the iteration order
MapSet(cache, e) ==
    IF e.key \in CacheKeys(cache)
    THEN [i \in DOMAIN cache |-> IF cache[i].key = e.key THEN e ELSE cache[i]]
    ELSE Append(cache, e)

\* a cache that is never cut back to its capacity
cacheAfterJsonUnbounded(cache, counter, key, status, body, t) ==
    LET c1 == MapSet(cache, [key |-> key, status |-> status, body |-> body, ts |-> t])
        Fresh(e) == ~(t - e.ts >= IDEMP_TTL_MS)
    IN IF (counter + 1) % IDEMP_SWEEP_EVERY = 0 THEN SelectSeq(c1, Fresh) ELSE c1

\* a cache that drops the first entry in iteration order
cacheAfterJsonEvictFirst(cache, counter, key, status, body, t) ==
    LET c1 == MapSet(cache, [key |-> key, status |-> status, body |-> body, ts |-> t])
        Fresh(e) == ~(t - e.ts >= IDEMP_TTL_MS)
        c2 == IF (counter + 1) % IDEMP_SWEEP_EVERY = 0 THEN SelectSeq(c1, Fresh) ELSE c1
    IN IF Len(c2) > IDEMP_MAX_ENTRIES THEN Tail(c2) ELSE c2

\* the wrapped res.json of enforceIdempotency (part_016:458-484)
cacheAfterJson(cache, counter, key, status, body, t) ==
    LET c1 == MapSet(cache, [key |-> key, status |-> status, body |-> body, ts |-> t])
        Fresh(e) == ~(t - e.ts >= IDEMP_TTL_MS)
        c2 == IF (counter + 1) % IDEMP_SWEEP_EVERY = 0 THEN SelectSeq(c1, Fresh) ELSE c1
        oldest == CHOOSE i \in DOMAIN c2 :
                      /\ \A j \in DOMAIN c2 : c2[i].ts <= c2[j].ts
                      /\ \A j \in DOMAIN c2 : j < i => c2[j].ts > c2[i].ts
        NotOldest(e) == e.key # c2[oldest].key
    IN IF Len(c2) > IDEMP_MAX_ENTRIES THEN SelectSeq(c2, NotOldest) ELSE c2

\* enforceIdempotency (part_016:439-486): answer here, or pass on (wrapped or not)
enforceIdempotency(r, cache, t) ==
    IF r.method # "POST" THEN [out |-> "next", wrapped |-> FALSE, status |-> 0, body |-> Undefined]
    ELSE LET key == getIdemKey(r) IN
         IF key = Null
         THEN [out |-> "respond", wrapped |-> FALSE, status |-> 400,
               body |-> Err("MissingIdempotencyKey", "Idempotency-Key header required")]
         ELSE IF key \in CacheKeys(cache) /\ t - CacheGet(cache, key).ts < IDEMP_TTL_MS
         THEN [out |-> "respond", wrapped |-> FALSE,
               status |-> CacheGet(cache, key).status, body |-> CacheGet(cache, key).body]
         ELSE [out |-> "next", wrapped |-> TRUE, status |-> 0, body |-> Undefined]

\* rateLimit (part_016:380-405)
rateLimit(r, lim, t) ==
    LET ip == r.ip IN
    IF ip \notin DOMAIN lim \/ t - lim[ip].ts > RATELIMIT_WINDOW_MS
    THEN [out |-> "next", rl |-> (ip :> [count |-> 1, ts |-> t]) @@ lim]
    ELSE IF lim[ip].count >= RATELIMIT_MAX
    THEN [out |-> "respond", rl |-> lim]
    ELSE [out |-> "next", rl |-> [lim EXCEPT ![ip].count = @ + 1]]

\* requireApiKey (part_016:407-429)
requireApiKey(r, e) ==
    IF e.NODE_ENV = "test" THEN [out |-> "next", status |-> 0, body |-> Undefined]
    ELSE IF e.API_KEYS = {}
    THEN [out |-> "respond", status |-> 401, body |-> Err("AuthRequired", "API key required")]
    ELSE IF typeof(r.apikey) = "undefined" \/ r.apikey.v \notin e.API_KEYS
    THEN [out |-> "respond", status |-> 403, body |-> Err("Forbidden", "Invalid API key")]
    ELSE [out |-> "next", status |-> 0, body |-> Undefined]


\* --------------------------------------------------------------- responses
\* res.status(status).json(body) on connection c whose request record is rec.
\* When enforceIdempotency wrapped res.json, the answer is cached first.
Finish(c, rec, status, body) ==
    /\ reqs' = [reqs EXCEPT ![c] =
                   [rec EXCEPT !.pc = "done", !.resp = [status |-> status, body |-> body]]]
    /\ IF rec.wrapped
       THEN /\ idempotencyCache' =
                   cacheAfterJson(idempotencyCache, idemSetCounter, rec.key, status, body, now)
            /\ idemSetCounter' = idemSetCounter + 1
       ELSE UNCHANGED << idempotencyCache, idemSetCounter >>
    /\ answers' = IF rec.req.method = "POST" /\ rec.key # Null
                  THEN answers \cup {[key |-> rec.key, status |-> status, body |-> body,
                                      ts |-> now]}
                  ELSE answers

\* the handler awaits: the request stays in flight
Proceed(c, rec) ==
    /\ reqs' = [reqs EXCEPT ![c] = rec]
    /\ UNCHANGED << idempotencyCache, idemSetCounter, answers >>

\* --------------------------------------------------- /prove and /artifact
\* the window compared without the + 1
proveValidateLoose(b) ==
    IF typeof(b) # "object" THEN "invalid artifact"
    ELSE IF \/ typeof(b.start_slot) # "number"
            \/ typeof(b.end_slot) # "number"
            \/ typeof(b.state_root_before) # "string"
            \/ typeof(b.state_root_after) # "string"
            \/ ~isHex32(b.state_root_before.v)
            \/ ~isHex32(b.state_root_after.v)
    THEN "missing or invalid fields"
    ELSE IF b.end_slot.v < b.start_slot.v THEN "end_slot must be >= start_slot"
    ELSE IF b.end_slot.v - b.start_slot.v > MAX_SLOTS_PER_ARTIFACT
    THEN "slot window exceeds MAX_SLOTS_PER_ARTIFACT"
    ELSE "ok"

\* the validation of part_016:524-575 (and 626-678): "ok" or the 400 message
proveValidate(b) ==
    IF typeof(b) # "object" THEN "invalid artifact"
    ELSE IF \/ typeof(b.start_slot) # "number"
            \/ typeof(b.end_slot) # "number"
            \/ typeof(b.state_root_before) # "string"
            \/ typeof(b.state_root_after) # "string"
            \/ ~isHex32(b.state_root_before.v)
            \/ ~isHex32(b.state_root_after.v)
    THEN "missing or invalid fields"
    ELSE IF b.end_slot.v < b.start_slot.v THEN "end_slot must be >= start_slot"
    ELSE IF b.end_slot.v - b.start_slot.v + 1 > MAX_SLOTS_PER_ARTIFACT
    THEN "slot window exceeds MAX_SLOTS_PER_ARTIFACT"
    ELSE "ok"

\* part_016:576-620: the artifact entry built from a validated body
proveArtifact(b) ==
    LET srb == normalizeHex32(b.state_root_before.v)
        sra == normalizeHex32(b.state_root_after.v)
        ph  == proofHashOf(b.start_slot.v, b.end_slot.v, srb, sra)
    IN [artifact_id |-> uuidFromHash32(ph),
        start_slot |-> b.start_slot.v,
        end_slot |-> b.end_slot.v,
        state_root_before |-> srb,
        state_root_after |-> sra,
        artifact_len |-> canonicalLen(b.start_slot.v, b.end_slot.v),
        proof_hash |-> ph]

\* the canonical JSON written to disk: the artifact without artifact_len, proof_hash
canonicalFile(a) ==
    [artifact_id |-> a.artifact_id, start_slot |-> a.start_slot, end_slot |-> a.end_slot,
     state_root_before |-> a.state_root_before, state_root_after |-> a.state_root_after]

fileSize(f) == canonicalLen(f.start_slot, f.end_slot)

DAY_MS == 86400000
utcDay(t) == t \div DAY_MS

\* handler of POST /prove and POST /artifact up to its first await (ensureDir)
ProveStart(c, rec) ==
    LET b == rec.req.body
        v == proveValidate(b)
        run == [rec EXCEPT !.ran = TRUE]
    IN IF v # "ok"
       THEN Finish(c, run, 400, Err("BadRequest", v))
       ELSE Proceed(c, [run EXCEPT !.pc = "prove_write", !.art = proveArtifact(b),
                                   !.dir = utcDay(now)])

\* the rest of the handler: size check, safeWriteFile, artifacts.set, res.json
ProveWrite(c) ==
    LET rec == reqs[c]
        a == rec.art
    IN /\ rec.pc = "prove_write"
       /\ IF a.artifact_len > MAX_ARTIFACT_SIZE_BYTES
          THEN /\ Finish(c, rec, 400,
                         Err("BadRequest", "artifact exceeds MAX_ARTIFACT_SIZE_BYTES"))
               /\ UNCHANGED << files, fileWrites, artifacts >>
          ELSE /\ files' = (<< rec.dir, a.artifact_id >> :> canonicalFile(a)) @@ files
               /\ fileWrites' = fileWrites + 1
               /\ artifacts' = (a.artifact_id :> a) @@ artifacts
               /\ Finish(c, rec, 200,
                         [kind |-> "artifact", artifact_id |-> a.artifact_id,
                          proof_hash |-> a.proof_hash])
       /\ UNCHANGED << env, now, ticks, nreq, localSeq, rl, config, aggState, txs >>
       /\ UNCHANGED idxVars


\* ----------------------------------------------------------------- /anchor
\* artifact.artifact_len || 0 : an artifact reloaded from disk carries no length
artifactLenOf(a) == IF "artifact_len" \in DOMAIN a THEN a.artifact_len ELSE 0

\* loadArtifactFromDisk / findFileRecursive: a file named <id>.json, or null
loadArtifactFromDisk(fs, id) ==
    IF \E k \in DOMAIN fs : k[2] = id
    THEN fs[CHOOSE k \in DOMAIN fs : k[2] = id]
    ELSE Null

\* handler of POST /anchor up to its first await
AnchorStart(c, rec) ==
    LET b == rec.req.body
        run == [rec EXCEPT !.ran = TRUE]
    IN IF typeof(b.artifact_id) = "undefined"
       THEN Finish(c, run, 400, Err("BadRequest", "artifact_id required"))
       ELSE IF b.artifact_id.v \in DOMAIN artifacts
       THEN Proceed(c, [run EXCEPT !.pc = "anchor_begin", !.art = artifacts[b.artifact_id.v]])
       ELSE Proceed(c, [run EXCEPT !.pc = "anchor_load"])

\* await loadArtifactFromDisk(artifact_id); artifacts.set(artifact_id, loaded)
AnchorLoad(c) ==
    LET rec == reqs[c]
        id == rec.req.body.artifact_id.v
        loaded == loadArtifactFromDisk(files, id)
    IN /\ rec.pc = "anchor_load"
       /\ IF loaded = Null
          THEN /\ Finish(c, rec, 404, Err("NotFound", "artifact not found"))
               /\ UNCHANGED artifacts
          ELSE /\ artifacts' = (id :> loaded) @@ artifacts
               /\ Proceed(c, [rec EXCEPT !.pc = "anchor_begin", !.art = loaded])
       /\ UNCHANGED << env, now, ticks, nreq, files, fileWrites, localSeq, rl,
                       config, aggState, txs >>
       /\ UNCHANGED idxVars

\* hex of the first 8 bytes of the DS digest
localTxid(dsHash) == [LOCAL |-> dsHash.v]

\* LOCAL_MODE branch (part_016:770-796)
AnchorLocal(c) ==
    LET rec == reqs[c]
        a == rec.art
        seq == localSeq + 1
        b == buildDS(env.CHAIN_ID, PROGRAM_ID,
                     proofHashOf(a.start_slot, a.end_slot, a.state_root_before, a.state_root_after),
                     a.start_slot, a.end_slot, seq)
    IN /\ rec.pc = "anchor_begin"
       /\ env.LOCAL_MODE
       /\ localSeq' = seq
       /\ IF u64leThrows(a.start_slot) \/ u64leThrows(a.end_slot) \/ env.AGG_SECRET = "unreadable"
          THEN Finish(c, rec, 500, Err("Unhandled", "Error"))
          ELSE Finish(c, rec, 200,
                      [kind |-> "anchored", aggregator_signature |-> Sign(b.ds, env.AGG_SECRET),
                       ds_hash |-> b.dsHash, transaction_id |-> localTxid(b.dsHash),
                       seq |-> seq])
       /\ UNCHANGED << env, now, ticks, nreq, artifacts, files, fileWrites, rl,
                       config, aggState, txs >>
       /\ UNCHANGED idxVars

\* fetchLastSeq (onchain.ts:45-68): 0n when the account is absent
fetchLastSeq(acc) == IF acc = Undefined THEN 0 ELSE acc.last_seq

\* await fetchLastSeq(...) (part_016:799-811); the RPC may fail
AnchorFetchLastSeq(c, rpcOk) ==
    LET rec == reqs[c]
    IN /\ rec.pc = "anchor_begin"
       /\ ~env.LOCAL_MODE
       /\ IF ~rpcOk
          THEN Finish(c, rec, 500, Err("FetchLastSeqFailed", "Error"))
          ELSE Proceed(c, [rec EXCEPT !.pc = "anchor_config",
                                      !.lastSeq = Num(fetchLastSeq(aggState))])
       /\ UNCHANGED << env, now, ticks, nreq, artifacts, files, fileWrites, localSeq, rl,
                       config, aggState, txs >>
       /\ UNCHANGED idxVars


\* fetchConfig (onchain.ts:3-43): throws when the account is absent
fetchConfigThrows(acc) == acc = Undefined

\* the next key only after activation_seq
allowedAggSwapped(cfg, seq) ==
    IF seq > cfg.activation_seq THEN cfg.next_aggregator_pubkey ELSE cfg.aggregator_pubkey

\* the allowed aggregator key for seq (part_016:838-841)
allowedAgg(cfg, seq) ==
    IF seq >= cfg.activation_seq THEN cfg.next_aggregator_pubkey ELSE cfg.aggregator_pubkey

\* --- error messages.  A message is a sequence of pieces: a word, or a single
\* character where the characters matter (digits).
\* An Error object with its message
Error(message) == [t |-> "Error", message |-> message]

RECURSIVE DecimalOf(_)
DecimalOf(n) ==
    LET d == <<"0", "1", "2", "3", "4", "5", "6", "7", "8", "9">>[(n % 10) + 1]
    IN IF n < 10 THEN <<d>> ELSE Append(DecimalOf(n \div 10), d)

\* String(err) for a value that is not an Error (errors.ts:7)
String(x) ==
    CASE x.t = "string" -> x.v
      [] x.t = "number" -> DecimalOf(x.v)
      [] x.t = "undefined" -> <<"undefined">>
      [] x.t = "null" -> <<"null">>

\* the letter-case class of a word, named by its listed spelling (the /i flag)
foldCase(w) ==
    CASE w \in {"paused", "PAUSED"} -> "Paused"
      [] w \in {"nonmonotonicseq"} -> "NonMonotonicSeq"
      [] w \in {"invalidmint"} -> "InvalidMint"
      [] OTHER -> w

\* RegExp.prototype.test for a literal pattern with the /i flag: the pattern
\* occurs somewhere in the message
regexTest(pattern, msg) ==
    \E i \in 1..(Len(msg) - Len(pattern) + 1) :
       \A k \in 1..Len(pattern) : foldCase(msg[i + k - 1]) = foldCase(pattern[k])

\* a table that answers 400 for Paused
errorTableAll400 ==
    << [name |-> "BadEd25519Order", digits |-> <<"6", "0", "1", "5">>, http |-> 400],
       [name |-> "BadDomainSeparation", digits |-> <<"6", "0", "1", "6">>, http |-> 400],
       [name |-> "NonMonotonicSeq", digits |-> <<"6", "0", "1", "2">>, http |-> 400],
       [name |-> "RangeOverlap", digits |-> <<"6", "0", "1", "3">>, http |-> 400],
       [name |-> "ClockSkew", digits |-> <<"6", "0", "1", "4">>, http |-> 400],
       [name |-> "AggregatorMismatch", digits |-> <<"6", "0", "0", "6">>, http |-> 400],
       [name |-> "InvalidMint", digits |-> <<"6", "0", "0", "0">>, http |-> 400],
       [name |-> "Paused", digits |-> <<"6", "0", "1", "0">>, http |-> 400] >>

\* the tests of errors.ts:14-23 in their order: /name|digits/i -> to(http, name)
errorTable ==
    << [name |-> "BadEd25519Order", digits |-> <<"6", "0", "1", "5">>, http |-> 400],
       [name |-> "BadDomainSeparation", digits |-> <<"6", "0", "1", "6">>, http |-> 400],
       [name |-> "NonMonotonicSeq", digits |-> <<"6", "0", "1", "2">>, http |-> 400],
       [name |-> "RangeOverlap", digits |-> <<"6", "0", "1", "3">>, http |-> 400],
       [name |-> "ClockSkew", digits |-> <<"6", "0", "1", "4">>, http |-> 400],
       [name |-> "AggregatorMismatch", digits |-> <<"6", "0", "0", "6">>, http |-> 400],
       [name |-> "InvalidMint", digits |-> <<"6", "0", "0", "0">>, http |-> 400],
       [name |-> "Paused", digits |-> <<"6", "0", "1", "0">>, http |-> 403] >>

\* mapProgramError (errors.ts:1-25): the first test that matches decides
mapProgramError(err) ==
    LET msg == IF err.t = "Error" THEN err.message ELSE String(err)
        to(http, code) == [http |-> http, code |-> code, message |-> msg, details |-> Null]
        hits == {i \in DOMAIN errorTable :
                    \/ regexTest(<<errorTable[i].name>>, msg)
                    \/ regexTest(errorTable[i].digits, msg)}
        first == CHOOSE i \in hits : \A k \in hits : i <= k
    IN IF hits = {} THEN to(500, "AnchorSubmitFailed")
       ELSE to(errorTable[first].http, errorTable[first].name)

\* mapProgramError(err) called on its own, as the unit tests call it
MapProgramErrorCall ==
    /\ call # Null
    /\ call.fn = "mapProgramError"
    /\ call.out = Null
    /\ call' = [call EXCEPT !.out = mapProgramError(call.arg)]
    /\ UNCHANGED << proofsTable, validatorsTable, indexerState, accounts, sigStatus,
                    ledgerEvents, idxPc, idxCycles, idxLog, scanAccounts >>
    /\ UNCHANGED << now, ticks, subStore >>

COMPUTE_UNITS == 200000

\* a transaction whose signature check covers the 32-byte digest of the preimage
anchorTransactionSignsDigest(p) ==
    LET seqLe == u64le(p.seq)
        data == encodeAnchorProofArgsBorsh(
                    [artifactId |-> p.artifactId, proofHash32 |-> p.proofHash,
                     seqLe |-> seqLe, startLe |-> u64le(p.startSlot),
                     endLe |-> u64le(p.endSlot), artifactLen |-> p.artifactLen,
                     stateRootBefore |-> p.stateRootBefore,
                     stateRootAfter |-> p.stateRootAfter,
                     aggregatorPubkey |-> p.aggregatorPubkey,
                     timestampLe |-> i64le(p.timestamp), dsHash32 |-> p.dsHash])
    IN << [program |-> "ComputeBudget", units |-> COMPUTE_UNITS],
          [program |-> "Ed25519", publicKey |-> p.aggregatorPubkey, message |-> << p.dsHash >>,
           signature |-> Sign(<< p.dsHash >>, p.aggregatorSecretKey)],
          [program |-> PROGRAM_ID, keys |-> << >>, data |-> data] >>

\* submitAnchorProofV1 (part_016:998-1139): the transaction it assembles
anchorTransaction(p) ==
    LET seqLe == u64le(p.seq)
        data == encodeAnchorProofArgsBorsh(
                    [artifactId |-> p.artifactId, proofHash32 |-> p.proofHash,
                     seqLe |-> seqLe, startLe |-> u64le(p.startSlot),
                     endLe |-> u64le(p.endSlot), artifactLen |-> p.artifactLen,
                     stateRootBefore |-> p.stateRootBefore,
                     stateRootAfter |-> p.stateRootAfter,
                     aggregatorPubkey |-> p.aggregatorPubkey,
                     timestampLe |-> i64le(p.timestamp), dsHash32 |-> p.dsHash])
        pda(seeds) == findProgramAddressSync(seeds, PROGRAM_ID)
        keys == << [pubkey |-> "payer", isSigner |-> TRUE, isWritable |-> TRUE],
                   [pubkey |-> pda(<<"zksl", "config">>), isSigner |-> FALSE, isWritable |-> TRUE],
                   [pubkey |-> pda(<<"zksl", "aggregator">>), isSigner |-> FALSE, isWritable |-> TRUE],
                   [pubkey |-> pda(<<"zksl", "range">>), isSigner |-> FALSE, isWritable |-> TRUE],
                   [pubkey |-> pda(<<"zksl", "proof", p.proofHash, seqLe>>),
                    isSigner |-> FALSE, isWritable |-> TRUE],
                   [pubkey |-> "Sysvar1nstructions", isSigner |-> FALSE, isWritable |-> FALSE],
                   [pubkey |-> "SystemProgram", isSigner |-> FALSE, isWritable |-> FALSE] >>
    IN << [program |-> "ComputeBudget", units |-> COMPUTE_UNITS],
          [program |-> "Ed25519", publicKey |-> p.aggregatorPubkey, message |-> p.ds,
           signature |-> Sign(p.ds, p.aggregatorSecretKey)],
          [program |-> PROGRAM_ID, keys |-> keys, data |-> data] >>

\* the key comparison made ahead of the chain id comparison
anchorDecisionKeyFirst(cfg, seq, a, e) ==
    IF u64leThrows(a.start_slot) \/ u64leThrows(a.end_slot) \/ e.AGG_SECRET = "unreadable"
    THEN "Unhandled"
    ELSE IF PubOfSecret(e.AGG_SECRET) # allowedAgg(cfg, seq) THEN "AggregatorKeyMismatch"
    ELSE IF cfg.chain_id # e.CHAIN_ID THEN "ChainIdMismatch"
    ELSE "submit"

\* the checks of part_016:828-863 in the order the handler makes them
anchorDecision(cfg, seq, a, e) ==
    IF cfg.chain_id # e.CHAIN_ID THEN "ChainIdMismatch"
    ELSE IF u64leThrows(a.start_slot) \/ u64leThrows(a.end_slot) \/ e.AGG_SECRET = "unreadable"
    THEN "Unhandled"
    ELSE IF PubOfSecret(e.AGG_SECRET) # allowedAgg(cfg, seq) THEN "AggregatorKeyMismatch"
    ELSE "submit"

\* a seq that repeats the last accepted one
nextSeqStale(lastSeq) == lastSeq

\* seq = lastSeq + 1n (part_016:811)
nextSeq(lastSeq) == lastSeq + 1

\* await fetchConfig(...) and everything up to the call of submitAnchorProofV1
AnchorFetchConfig(c, rpcOk) ==
    LET rec == reqs[c]
        a == rec.art
        seq == nextSeq(rec.lastSeq.v)
        cfg == config
        d == anchorDecision(cfg, seq, a, env)
        ph == proofHashOf(a.start_slot, a.end_slot, a.state_root_before, a.state_root_after)
        b == buildDS(env.CHAIN_ID, PROGRAM_ID, ph, a.start_slot, a.end_slot, seq)
        tx == anchorTransaction(
                 [ds |-> b.ds, dsHash |-> b.dsHash, proofHash |-> ph,
                  startSlot |-> a.start_slot, endSlot |-> a.end_slot, seq |-> seq,
                  aggregatorSecretKey |-> env.AGG_SECRET,
                  aggregatorPubkey |-> allowedAgg(cfg, seq),
                  artifactId |-> uuidToBytes(a.artifact_id),
                  artifactLen |-> artifactLenOf(a),
                  stateRootBefore |-> hexTo32(a.state_root_before),
                  stateRootAfter |-> hexTo32(a.state_root_after),
                  timestamp |-> now \div 1000])
    IN /\ rec.pc = "anchor_config"
       /\ IF ~rpcOk \/ fetchConfigThrows(config)
          THEN Finish(c, rec, 400, Err("ConfigNotFound", "Error"))
          ELSE LET seen == [rec EXCEPT !.cfg = cfg] IN
               CASE d = "ChainIdMismatch" ->
                        Finish(c, seen, 400, Err("ChainIdMismatch", "env CHAIN_ID != on-chain"))
                 [] d = "Unhandled" ->
                        Finish(c, seen, 500, Err("Unhandled", "Error"))
                 [] d = "AggregatorKeyMismatch" ->
                        Finish(c, seen, 400, Err("AggregatorKeyMismatch",
                               "aggregator secret does not match allowed aggregator_pubkey"))
                 [] OTHER -> Proceed(c, [seen EXCEPT !.pc = "anchor_submit", !.tx = tx])
       /\ UNCHANGED << env, now, ticks, nreq, artifacts, files, fileWrites, localSeq, rl,
                       config, aggState, txs >>
       /\ UNCHANGED idxVars


\* the fields of an anchor transaction, read back from its bytes
TxSeq(tx) == LEValue(tx[3].data[4].v)
TxDsSeq(tx) == LEValue(tx[2].message[7].v)
TxPdaSeq(tx) == LEValue(tx[3].keys[5].pubkey.pda[4].v)
TxPayloadAggregator(tx) == tx[3].data[10].v

\* The verifier program, at its contract: the signature check instruction must
\* verify, the payload key must be the allowed key for seq, and seq must be
\* last_seq + 1.
verifierOutcome(tx, cfg, agg) ==
    LET ed == tx[2]
        seq == TxSeq(tx)
        allowed == IF seq >= cfg.activation_seq THEN cfg.next_aggregator_pubkey
                   ELSE cfg.aggregator_pubkey
    IN IF ~Verifies(ed.signature, ed.message, ed.publicKey) THEN "BadEd25519Order"
       ELSE IF TxPayloadAggregator(tx) # allowed \/ ed.publicKey # allowed
       THEN "AggregatorMismatch"
       ELSE IF seq # fetchLastSeq(agg) + 1 THEN "NonMonotonicSeq"
       ELSE "ok"

\* await submitAnchorProofV1(...): getLatestBlockhash, sendAndConfirmTransaction,
\* then res.json or the mapped error (part_016:866-906, 1141-1146)
AnchorSubmit(c, sent) ==
    LET rec == reqs[c]
        tx == rec.tx
        v == verifierOutcome(tx, config, aggState)
        m == mapProgramError(Error(IF sent THEN <<v>> ELSE <<"fetch failed">>))
    IN /\ rec.pc = "anchor_submit"
       /\ sent => config # Undefined
       /\ IF sent /\ v = "ok"
          THEN /\ aggState' = [last_seq |-> TxSeq(tx)]
               /\ Finish(c, rec, 200,
                         [kind |-> "anchored", aggregator_signature |-> tx[2].signature,
                          ds_hash |-> tx[3].data[12], transaction_id |-> [txsig |-> rec.id]])
          ELSE /\ UNCHANGED aggState
               /\ Finish(c, rec, m.http, Err(m.code, "Error"))
       /\ txs' = IF sent
                 THEN txs \cup {[rid |-> rec.id, tx |-> tx, lastSeq |-> rec.lastSeq.v,
                                 cfg |-> rec.cfg, accepted |-> (v = "ok")]}
                 ELSE txs
       /\ UNCHANGED << env, now, ticks, nreq, artifacts, files, fileWrites, localSeq, rl,
                       config >>
       /\ UNCHANGED idxVars

\* ---------------------------------------------------------------- arrival
FreeConn(c) == reqs[c].pc \in {"idle", "done"}

\* A request arrives: express runs enforceIdempotency, rateLimit (part_016:488-490),
\* then the route with requireApiKey, up to the handler's first await.
Arrive(r) ==
    /\ nreq < MaxRequests
    /\ \E c \in Conns : FreeConn(c)
    /\ LET c == CHOOSE x \in Conns : FreeConn(x) /\ \A y \in Conns : FreeConn(y) => x <= y
           key == IF r.method = "POST" THEN getIdemKey(r) ELSE Null
           base == [IdleReq EXCEPT !.id = nreq + 1, !.at = now, !.req = r, !.key = key,
                       !.prior = {a \in answers : a.key = key},
                       !.rlFull = /\ r.ip \in DOMAIN rl
                                  /\ ~(now - rl[r.ip].ts > RATELIMIT_WINDOW_MS)
                                  /\ rl[r.ip].count >= RATELIMIT_MAX]
           i == enforceIdempotency(r, idempotencyCache, now)
           l == rateLimit(r, rl, now)
           a == requireApiKey(r, env)
           w == [base EXCEPT !.wrapped = i.wrapped]
       IN /\ nreq' = nreq + 1
          /\ IF i.out = "respond"
             THEN /\ Finish(c, base, i.status, i.body)
                  /\ UNCHANGED rl
             ELSE /\ rl' = l.rl
                  /\ IF l.out = "respond"
                     THEN Finish(c, w, 429, Err("RateLimitExceeded", "Too many requests"))
                     ELSE IF r.route = "/health"
                     THEN Finish(c, w, 200, [kind |-> "health", status |-> "ok"])
                     ELSE IF a.out = "respond"
                     THEN Finish(c, w, a.status, a.body)
                     ELSE IF r.route \in {"/prove", "/artifact"}
                     THEN ProveStart(c, w)
                     ELSE AnchorStart(c, w)
    /\ UNCHANGED << env, now, ticks, artifacts, files, fileWrites, localSeq,
                    config, aggState, txs >>
    /\ UNCHANGED idxVars

\* time passes
Tick(d) ==
    /\ ticks < MaxTicks
    /\ ticks' = ticks + 1
    /\ now' = now + d
    /\ UNCHANGED << env, nreq, artifacts, files, fileWrites, idempotencyCache,
                    idemSetCounter, localSeq, rl, reqs, answers, config, aggState, txs >>
    /\ UNCHANGED idxVars


\* =============================================================== indexer
\* Perms(S): the orders in which a set can be listed
Perms(S) ==
    {f \in [1..Cardinality(S) -> S] : \A x \in S : \E i \in 1..Cardinality(S) : f[i] = x}

\* indexer_state after migrations 002 and 003: the cursor columns start NULL
IndexerStateRow ==
    [last_scan_ts |-> 0, last_seen_slot |-> Null, last_signature |-> Null,
     last_reconciled_ts |-> Null]

NoLog == [before |-> Null, ends |-> {}, deleted |-> {}, upsert |-> Null, event |-> Null]

\* a level that tells finalized from the rest only
levelOfFinalOnly(cs) == IF cs = "finalized" THEN 2 ELSE 0

\* confirmationStatus -> commitment level (part_007:130, 203-204)
levelOf(cs) == IF cs = "finalized" THEN 2 ELSE IF cs = "confirmed" THEN 1 ELSE 0

\* getSignatureStatuses([sig]).value[0]: null when the ledger has no record
statusOf(st, sig) == IF sig \in DOMAIN st THEN st[sig] ELSE Null

\* firstSignatureForAddress (part_007:108-118): sigs[0]?.signature || ""
firstSignatureForAddress(acc) == acc.sig

\* commitmentOfSig (part_007:120-131)
commitmentOfSig(st, sig) ==
    IF sig = "" THEN 0
    ELSE LET s == statusOf(st, sig)
         IN IF s = Null THEN 0 ELSE levelOf(s.confirmationStatus)

\* upsertProof (db.ts:4-33): (proof_hash, seq), written key, is the conflict
\* target; txid and artifact_id are UNIQUE, and the insert of a new key that
\* repeats one of them is rejected
upsertProofThrows(table, p) ==
    /\ \A r \in table : r.key # p.key
    /\ \E r \in table : r.txid = p.txid \/ r.artifact_id = p.artifact_id

\* INSERT OR REPLACE: the stored row overwritten by the new tuple
upsertProofReplace(table, p) == {r \in table : r.key # p.key} \cup {p}

upsertProof(table, p) ==
    IF \E r \in table : r.key = p.key
    THEN {IF r.key = p.key
          THEN [r EXCEPT !.commitment_level = p.commitment_level, !.proof_version = 1]
          ELSE r : r \in table}
    ELSE table \cup {[p EXCEPT !.proof_version = 1]}

\* an upsert whose conflict branch overwrites every column of the row
upsertValidatorReplace(table, v, t) ==
    {r \in table : r.pubkey # v.pubkey}
        \cup {[pubkey |-> v.pubkey, status |-> v.status, escrow |-> v.escrow,
               lock_ts |-> v.lock_ts, unlock_ts |-> Null, num_accepts |-> v.num_accepts,
               last_seen |-> t]}

\* upsertValidator (db.ts:37-47); column unlock_ts (001_init.sql:7) is not in
\* the INSERT list and has no default, so a new row holds NULL there
upsertValidator(table, v, t) ==
    IF \E r \in table : r.pubkey = v.pubkey
    THEN {IF r.pubkey = v.pubkey
          THEN [r EXCEPT !.status = v.status, !.num_accepts = v.num_accepts, !.last_seen = t]
          ELSE r : r \in table}
    ELSE table \cup {[pubkey |-> v.pubkey, status |-> v.status, escrow |-> v.escrow,
                      lock_ts |-> v.lock_ts, unlock_ts |-> Null,
                      num_accepts |-> v.num_accepts, last_seen |-> t]}

\* a call of upsertValidator(pg, v) (db.ts:37-47) at time now
UpsertValidatorCall(v) ==
    /\ idxPc = "off"
    /\ validatorsTable' = upsertValidator(validatorsTable, v, now)
    /\ idxLog' = [NoLog EXCEPT !.upsert = [tuple |-> v, threw |-> FALSE]]
    /\ UNCHANGED << proofsTable, indexerState, accounts, sigStatus, ledgerEvents, idxPc,
                    idxCycles, scanAccounts, call >>
    /\ UNCHANGED << now, ticks, subStore >>

\* a call of upsertProof(pg, p) (db.ts:4-33); a rejected query changes nothing
UpsertProofCall(p) ==
    /\ idxPc = "off"
    /\ proofsTable' = IF upsertProofThrows(proofsTable, p) THEN proofsTable
                      ELSE upsertProof(proofsTable, p)
    /\ idxLog' = [NoLog EXCEPT !.upsert = [tuple |-> p,
                                           threw |-> upsertProofThrows(proofsTable, p)]]
    /\ UNCHANGED << validatorsTable, indexerState, accounts, sigStatus, ledgerEvents, idxPc,
                    idxCycles, scanAccounts, call >>
    /\ UNCHANGED << now, ticks, subStore >>

\* the body of the loop of scanOnce (part_007:65-82) for one account
scanAccount(s, a, lastSeen, st, t, fails) ==
    IF a.kind = "validator"
    THEN [s EXCEPT !.validators = upsertValidator(@, a, t)]
    ELSE IF a.end_slot <= lastSeen THEN s
    ELSE IF fails THEN [s EXCEPT !.crashed = TRUE]
    ELSE LET txid == firstSignatureForAddress(a)
             commitment == commitmentOfSig(st, txid)
             row == [key |-> a.key, artifact_id |-> a.artifact_id,
                     start_slot |-> a.start_slot, end_slot |-> a.end_slot,
                     ts |-> a.timestamp, seq |-> a.seq, txid |-> txid,
                     commitment_level |-> commitment, proof_version |-> 1]
         IN IF upsertProofThrows(s.proofs, row)
            THEN [s EXCEPT !.crashed = TRUE]
            ELSE [s EXCEPT !.proofs = upsertProof(@, row),
                           !.last_signature =
                               IF commitment >= 1 /\ txid # "" THEN Str(txid) ELSE @,
                           !.maxSlot = IF a.end_slot > @ THEN a.end_slot ELSE @]

RECURSIVE scanLoop(_, _, _, _, _, _, _)
scanLoop(order, i, failAt, s, lastSeen, st, t) ==
    IF i > Len(order) \/ s.crashed THEN s
    ELSE scanLoop(order, i + 1, failAt,
                  scanAccount(s, order[i], lastSeen, st, t, i = failAt), lastSeen, st, t)

\* the cursor scanOnce leaves behind (part_007:83-103): the slot getSlot()
\* returned, if it returned, then maxSlot when it passed lastSeen
scanCursor(cur, lastSeen, maxSlot, slot) ==
    IF maxSlot > lastSeen THEN Num(maxSlot)
    ELSE IF slot = Null THEN cur
    ELSE slot

\* scanOnce (part_007:48-104). order: the accounts as getProgramAccounts lists
\* them; failAt: the account at which a ledger call throws (0: none,
\* Len(order) + 1: getProgramAccounts itself); slot: what getSlot() returns,
\* Null when it throws.  A throw ends the process (part_007:223-226).  The scan
\* as one step: nothing else runs between its awaits (ScanFetch and ScanLoop
\* are the same scan in two steps).
ScanOnce(order, failAt, slot) ==
    LET cur == indexerState.last_seen_slot
        lastSeen == IF cur = Null THEN 0 ELSE cur.v
        s0 == [proofs |-> proofsTable, validators |-> validatorsTable,
               last_signature |-> indexerState.last_signature, maxSlot |-> lastSeen,
               crashed |-> FALSE]
        s == IF failAt = Len(order) + 1 THEN [s0 EXCEPT !.crashed = TRUE]
             ELSE scanLoop(order, 1, failAt, s0, lastSeen, sigStatus, now)
        stamped == [indexerState EXCEPT !.last_scan_ts = now,
                                        !.last_signature = s.last_signature]
    IN /\ idxPc = "scan"
       /\ proofsTable' = s.proofs
       /\ validatorsTable' = s.validators
       /\ IF s.crashed
          THEN /\ indexerState' = stamped
               /\ idxPc' = "crashed"
               /\ UNCHANGED idxLog
          ELSE /\ indexerState' =
                     [stamped EXCEPT !.last_seen_slot = scanCursor(cur, lastSeen, s.maxSlot, slot)]
               /\ idxPc' = "reconcile"
               /\ idxLog' = [NoLog EXCEPT
                                !.before = cur,
                                !.ends = {a.end_slot : a \in {x \in accounts : x.kind = "proof"}}]
       /\ UNCHANGED << accounts, sigStatus, ledgerEvents, idxCycles, scanAccounts, call >>
       /\ UNCHANGED << now, ticks, subStore >>

\* scanOnce up to the result of getProgramAccounts (part_007:56-57): the time
\* stamp is written, then the accounts are listed.  order: the listing; rpcOk:
\* FALSE when the call throws
ScanFetch(order, rpcOk) ==
    /\ idxPc = "scan"
    /\ indexerState' = [indexerState EXCEPT !.last_scan_ts = now]
    /\ IF rpcOk
       THEN /\ scanAccounts' = order
            /\ idxPc' = "scan_loop"
       ELSE /\ idxPc' = "crashed"
            /\ UNCHANGED scanAccounts
    /\ UNCHANGED << proofsTable, validatorsTable, accounts, sigStatus, ledgerEvents, idxCycles,
                    idxLog, call >>
    /\ UNCHANGED << now, ticks, subStore >>

\* the rest of scanOnce (part_007:58-103), on the listing ScanFetch obtained
ScanLoop(failAt, slot) ==
    LET cur == indexerState.last_seen_slot
        lastSeen == IF cur = Null THEN 0 ELSE cur.v
        s0 == [proofs |-> proofsTable, validators |-> validatorsTable,
               last_signature |-> indexerState.last_signature, maxSlot |-> lastSeen,
               crashed |-> FALSE]
        s == scanLoop(scanAccounts, 1, failAt, s0, lastSeen, sigStatus, now)
        signed == [indexerState EXCEPT !.last_signature = s.last_signature]
    IN /\ idxPc = "scan_loop"
       /\ proofsTable' = s.proofs
       /\ validatorsTable' = s.validators
       /\ scanAccounts' = Null
       /\ UNCHANGED call
       /\ IF s.crashed
          THEN /\ indexerState' = signed
               /\ idxPc' = "crashed"
               /\ UNCHANGED idxLog
          ELSE /\ indexerState' =
                     [signed EXCEPT !.last_seen_slot = scanCursor(cur, lastSeen, s.maxSlot, slot)]
               /\ idxPc' = "reconcile"
               /\ idxLog' = [NoLog EXCEPT
                                !.before = cur,
                                !.ends = {scanAccounts[i].end_slot :
                                             i \in {j \in 1..Len(scanAccounts) :
                                                       scanAccounts[j].kind = "proof"}}]
       /\ UNCHANGED << accounts, sigStatus, ledgerEvents, idxCycles >>
       /\ UNCHANGED << now, ticks, subStore >>

RECONCILE_LIMIT == 100
DROP_AGE_S == 60
POLL_MS == 20000

\* a row of exactly 60 s counted as old
tooOldInclusive(t, ts) == t >= (ts + DROP_AGE_S) * 1000

\* age > 60, age = Date.now() / 1000 - ts_epoch (part_007:195-199)
tooOld(t, ts) == t > (ts + DROP_AGE_S) * 1000

\* SELECT ... WHERE commitment_level < 2 ORDER BY ts ASC LIMIT 100 (part_007:181-183):
\* every listing the query may return
pendingSelections(table) ==
    LET pending == {r \in table : r.commitment_level < 2}
        n == IF Cardinality(pending) < RECONCILE_LIMIT THEN Cardinality(pending)
             ELSE RECONCILE_LIMIT
    IN {SubSeq(o, 1, n) :
          o \in {p \in Perms(pending) :
                    \A i, j \in 1..Len(p) : i < j => p[i].ts <= p[j].ts}}

\* the body of the loop of reconcilePending (part_007:187-213) for one row
reconcileRow(s, row, st, t, fails) ==
    LET sig == row.txid
        x == statusOf(st, sig)
    IN IF sig = "" THEN s
       ELSE IF fails THEN [s EXCEPT !.crashed = TRUE]
       ELSE IF x = Null \/ x.err
       THEN IF tooOld(t, row.ts)
            THEN [s EXCEPT !.proofs = {r \in @ : r.txid # sig},
                           !.deleted = @ \cup {[key |-> row.key, status |-> x]}]
            ELSE s
       ELSE LET level == levelOf(x.confirmationStatus)
            IN [s EXCEPT !.proofs = {IF r.txid = sig
                                     THEN [r EXCEPT !.commitment_level = level]
                                     ELSE r : r \in @},
                         !.last_signature = IF level >= 1 THEN Str(sig) ELSE @]

RECURSIVE reconcileLoop(_, _, _, _, _, _)
reconcileLoop(rows, i, failAt, s, st, t) ==
    IF i > Len(rows) \/ s.crashed THEN s
    ELSE reconcileLoop(rows, i + 1, failAt,
                       reconcileRow(s, rows[i], st, t, i = failAt), st, t)

\* reconcilePending (part_007:176-217). rows: the listing the query returned;
\* failAt: the row at which getSignatureStatuses throws (0: none)
ReconcilePending(rows, failAt) ==
    LET s0 == [proofs |-> proofsTable, last_signature |-> indexerState.last_signature,
               deleted |-> {}, crashed |-> FALSE]
        s == reconcileLoop(rows, 1, failAt, s0, sigStatus, now)
    IN /\ idxPc = "reconcile"
       /\ proofsTable' = s.proofs
       /\ idxLog' = [idxLog EXCEPT !.deleted = s.deleted, !.event = Null]
       /\ IF s.crashed
          THEN /\ indexerState' = [indexerState EXCEPT !.last_signature = s.last_signature]
               /\ idxPc' = "crashed"
          ELSE /\ indexerState' =
                     IF Len(rows) = 0 THEN indexerState
                     ELSE [indexerState EXCEPT !.last_signature = s.last_signature,
                                               !.last_reconciled_ts = Num(now)]
               /\ idxPc' = "sleep"
       /\ UNCHANGED << validatorsTable, accounts, sigStatus, ledgerEvents, idxCycles, scanAccounts, call >>
       /\ UNCHANGED << now, ticks, subStore >>

\* await sleep(20000) (part_007:44), then the next cycle
Sleep ==
    /\ idxPc = "sleep"
    /\ idxCycles < MaxCycles
    /\ idxCycles' = idxCycles + 1
    /\ idxPc' = "scan"
    /\ now' = now + POLL_MS
    /\ UNCHANGED << proofsTable, validatorsTable, indexerState, accounts, sigStatus,
                    ledgerEvents, idxLog, scanAccounts, call >>
    /\ UNCHANGED << ticks, subStore >>

\* a callback that stores proof records too, with no signature to give them
onProgramAccountChangeProofs(db, a, t) ==
    IF a.kind = "proof"
    THEN [db EXCEPT !.proofs =
             upsertProof(@, [key |-> a.key, artifact_id |-> a.artifact_id,
                             start_slot |-> a.start_slot, end_slot |-> a.end_slot,
                             ts |-> a.timestamp, seq |-> a.seq, txid |-> "",
                             commitment_level |-> 0, proof_version |-> 1])]
    ELSE [db EXCEPT !.validators = upsertValidator(@, a, t)]

\* the callback of onProgramAccountChange (part_007:154-171) on the two tables:
\* a proof record is skipped, a validator record upserted
onProgramAccountChange(db, a, t) ==
    IF a.kind = "proof" THEN db
    ELSE IF a.kind = "validator" THEN [db EXCEPT !.validators = upsertValidator(@, a, t)]
    ELSE db

\* an account-change notification arrives and its callback runs
\* (part_007:152-172); idxLog.event keeps the notification
AccountChange(a) ==
    LET db == onProgramAccountChange([proofs |-> proofsTable, validators |-> validatorsTable],
                                     a, now)
    IN /\ idxPc \in {"scan", "scan_loop", "reconcile", "sleep"}
       /\ a \in accounts
       /\ proofsTable' = db.proofs
       /\ validatorsTable' = db.validators
       /\ idxLog' = [idxLog EXCEPT !.event = a]
       /\ UNCHANGED << indexerState, accounts, sigStatus, ledgerEvents, idxPc, idxCycles, scanAccounts, call >>
       /\ UNCHANGED << now, ticks, subStore >>

\* --- the ledger, as the indexer's RPC calls see it
\* a record is written to the ledger
LedgerRecord(a) ==
    /\ ledgerEvents < MaxLedgerEvents
    /\ a \notin accounts
    /\ \A x \in accounts : x.key # a.key
    /\ accounts' = accounts \cup {a}
    /\ ledgerEvents' = ledgerEvents + 1
    /\ UNCHANGED << proofsTable, validatorsTable, indexerState, sigStatus, idxPc, idxCycles,
                    idxLog, scanAccounts, call >>
    /\ UNCHANGED << now, ticks, subStore >>

\* the ledger program rewrites a validator record
LedgerValidatorChange(v) ==
    /\ ledgerEvents < MaxLedgerEvents
    /\ v.kind = "validator"
    /\ \E x \in accounts : x.key = v.key /\ x.num_accepts < v.num_accepts
    /\ accounts' = {x \in accounts : x.key # v.key} \cup {v}
    /\ ledgerEvents' = ledgerEvents + 1
    /\ UNCHANGED << proofsTable, validatorsTable, indexerState, sigStatus, idxPc, idxCycles,
                    idxLog, scanAccounts, call >>
    /\ UNCHANGED << now, ticks, subStore >>

\* the ledger's report on a signature changes
LedgerStatus(sig, x) ==
    /\ ledgerEvents < MaxLedgerEvents
    /\ statusOf(sigStatus, sig) # x
    /\ sigStatus' = (sig :> x) @@ sigStatus
    /\ ledgerEvents' = ledgerEvents + 1
    /\ UNCHANGED << proofsTable, validatorsTable, indexerState, accounts, idxPc, idxCycles,
                    idxLog, scanAccounts, call >>
    /\ UNCHANGED << now, ticks, subStore >>

\* ================================================================ inputs
Root0 == Rep("0", 64)
Rootf == Rep("f", 64)
RootF == Rep("F", 64)
RootG == Rep("G", 64)
Root63 == Rep("0", 63)

Body(start, end, srb, sra) ==
    [t |-> "object", start_slot |-> start, end_slot |-> end,
     state_root_before |-> srb, state_root_after |-> sra]

BodyA == Body(Num(1), Num(64), Str(Root0), Str(Rootf))
BodyAUpper == Body(Num(1), Num(64), Str(Root0), Str(RootF))
BodyB == Body(Num(65), Num(2112), Str(Rootf), Str(Root0))
BodyC == Body(Num(7), Num(7), Str(Root0), Str(Root0))

IdOf(b) == proveArtifact(b).artifact_id
AnchorBody(id) == [t |-> "object", artifact_id |-> id]

Key1 == Str(<<"k", "1">>)
Key1Padded == Str(<<" ", "k", "1", " ">>)
Key2 == Str(<<"k", "2">>)
Key3 == Str(<<"k", "3">>)
KeyBlank == Str(<<" ", " ">>)
KeyEmpty == Str(<<>>)

Post(route, ip, idem, apikey, body) ==
    [method |-> "POST", route |-> route, ip |-> ip, idem |-> idem, apikey |-> apikey,
     body |-> body]
Get(route, ip, apikey) ==
    [method |-> "GET", route |-> route, ip |-> ip, idem |-> Undefined, apikey |-> apikey,
     body |-> Undefined]

TickDeltas == {RATELIMIT_WINDOW_MS, RATELIMIT_WINDOW_MS + 1, IDEMP_TTL_MS}

NoConfig == Undefined

InitIndexerIdle ==
    /\ proofsTable = {}
    /\ validatorsTable = {}
    /\ indexerState = IndexerStateRow
    /\ accounts = {}
    /\ sigStatus = << >>
    /\ ledgerEvents = 0
    /\ idxPc = "off"
    /\ idxCycles = 0
    /\ idxLog = NoLog
    /\ scanAccounts = Null
    /\ call = Null

InitSubmitterCommon ==
    /\ ticks = 0
    /\ nreq = 0
    /\ artifacts = << >>
    /\ files = << >>
    /\ fileWrites = 0
    /\ idempotencyCache = << >>
    /\ idemSetCounter = 0
    /\ localSeq = 0
    /\ rl = << >>
    /\ reqs = [c \in Conns |-> IdleReq]
    /\ answers = {}
    /\ txs = {}

\* ---------------------------------------------------------------- SpecGate
\* The submitter behind its middleware: idempotency, rate limit, API keys,
\* /prove, /artifact and /health.
GateEnvs ==
    {[NODE_ENV |-> e[1], API_KEYS |-> e[2], LOCAL_MODE |-> TRUE, CHAIN_ID |-> 103,
      AGG_SECRET |-> "K1"] :
        e \in {<<"test", {}>>, <<"development", {}>>, <<"development", {"good"}>>}}

GateRequests ==
    { Post("/prove", "ip1", Key1, Str("good"), BodyA),
      Post("/prove", "ip1", Key1Padded, Undefined, BodyB),
      Post("/artifact", "ip1", Undefined, Str("good"), BodyA),
      Post("/prove", "ip2", KeyBlank, Str("good"), BodyA),
      Get("/health", "ip1", Undefined) }

InitGate ==
    /\ env \in GateEnvs
    /\ now = 0
    /\ config = NoConfig
    /\ aggState = Undefined
    /\ InitSubmitterCommon
    /\ InitIndexerIdle

NextGate ==
    \/ \E r \in GateRequests : Arrive(r)
    \/ \E c \in Conns : ProveWrite(c)
    \/ \E d \in TickDeltas : Tick(d)

SpecGate == InitGate /\ [][NextGate]_vars


\* --------------------------------------------------------------- SpecProve
\* /prove and /artifact in test mode, with well-formed and malformed bodies.
BodyRootG == Body(Num(1), Num(64), Str(RootG), Str(Rootf))
BodyRoot63 == Body(Num(1), Num(64), Str(Root0), Str(Root63))
BodyNoRoot == Body(Num(1), Num(64), Str(Root0), Undefined)
BodyEndBefore == Body(Num(10), Num(9), Str(Root0), Str(Rootf))
BodyWide == Body(Num(1), Num(2049), Str(Root0), Str(Rootf))

TestEnv(local, secret) ==
    [NODE_ENV |-> "test", API_KEYS |-> {}, LOCAL_MODE |-> local, CHAIN_ID |-> 103,
     AGG_SECRET |-> secret]

ProveRequests ==
    { Post("/prove", "ip1", Key1, Undefined, BodyB),
      Post("/prove", "ip1", Key2, Undefined, BodyRootG),
      Post("/prove", "ip2", Key3, Undefined, BodyEndBefore),
      Post("/prove", "ip3", Key1, Undefined, BodyNoRoot),
      Post("/artifact", "ip2", Key1, Undefined, BodyWide),
      Post("/artifact", "ip1", Key2, Undefined, BodyRoot63),
      Post("/artifact", "ip3", Key3, Undefined, BodyAUpper) }

InitProve ==
    /\ env = TestEnv(TRUE, "K1")
    /\ now = 0
    /\ config = NoConfig
    /\ aggState = Undefined
    /\ InitSubmitterCommon
    /\ InitIndexerIdle

NextProve ==
    \/ \E r \in ProveRequests : Arrive(r)
    \/ \E c \in Conns : ProveWrite(c)

SpecProve == InitProve /\ [][NextProve]_vars

\* -------------------------------------------------------------- SpecAnchor
\* /anchor against the ledger (LOCAL_MODE off): an artifact written by an
\* earlier run is on disk, the configuration record may be absent, carry
\* another chain id, or rotate the aggregator key at seq 1 or 2.
ArtifactA == proveArtifact(BodyA)

Config(chain, activation) ==
    [aggregator_pubkey |-> "K1", next_aggregator_pubkey |-> "K2",
     activation_seq |-> activation, chain_id |-> chain]

AnchorConfigs == {NoConfig, Config(103, 2), Config(104, 2)}

AnchorRequests ==
    { Post("/anchor", "ip1", Key1, Undefined, AnchorBody(Str(ArtifactA.artifact_id))),
      Post("/anchor", "ip2", Key2, Undefined, AnchorBody(Str(ArtifactA.artifact_id))),
      Post("/anchor", "ip3", Key3, Undefined, AnchorBody(Str(IdOf(BodyC)))) }

InitAnchor ==
    /\ env \in {TestEnv(FALSE, k) : k \in {"K1", "K2"}}
    /\ config \in AnchorConfigs
    /\ aggState \in {Undefined, [last_seq |-> 1]}
    /\ now = 0
    /\ ticks = 0
    /\ nreq = 0
    /\ artifacts = << >>
    /\ files = (<< 0, ArtifactA.artifact_id >> :> canonicalFile(ArtifactA))
    /\ fileWrites = 0
    /\ idempotencyCache = << >>
    /\ idemSetCounter = 0
    /\ localSeq = 0
    /\ rl = << >>
    /\ reqs = [c \in Conns |-> IdleReq]
    /\ answers = {}
    /\ txs = {}
    /\ InitIndexerIdle

NextAnchor ==
    \/ \E r \in AnchorRequests : Arrive(r)
    \/ \E c \in Conns : AnchorLoad(c)
    \/ \E c \in Conns, rpcOk \in BOOLEAN : AnchorFetchLastSeq(c, rpcOk)
    \/ \E c \in Conns, rpcOk \in BOOLEAN : AnchorFetchConfig(c, rpcOk)
    \/ \E c \in Conns, sent \in BOOLEAN : AnchorSubmit(c, sent)

SpecAnchor == InitAnchor /\ [][NextAnchor]_vars

\* --------------------------------------------------------------- SpecLocal
\* /anchor with LOCAL_MODE set or not, up to the read of last_seq.  Artifact A
\* is on disk from an earlier run, the key file may be unreadable;
\* /prove accepts a body with negative slots (typeof number, end >= start).
BodyNeg == Body(Num(-5), Num(-1), Str(Root0), Str(Rootf))

LocalRequests ==
    { Post("/anchor", "ip1", Key1, Undefined, AnchorBody(Str(ArtifactA.artifact_id))),
      Post("/anchor", "ip2", Key2, Undefined, AnchorBody(Str(ArtifactA.artifact_id))),
      Post("/prove", "ip3", Key3, Undefined, BodyNeg),
      Post("/anchor", "ip3", Key1Padded, Undefined, AnchorBody(Str(IdOf(BodyNeg)))) }

InitLocal ==
    /\ env \in {TestEnv(local, k) : local \in BOOLEAN, k \in {"K1", "unreadable"}}
    /\ now = 0
    /\ config = Config(103, 2)
    /\ aggState \in {Undefined, [last_seq |-> 1]}
    /\ ticks = 0
    /\ nreq = 0
    /\ artifacts = << >>
    /\ files = (<< 0, ArtifactA.artifact_id >> :> canonicalFile(ArtifactA))
    /\ fileWrites = 0
    /\ idempotencyCache = << >>
    /\ idemSetCounter = 0
    /\ localSeq = 0
    /\ rl = << >>
    /\ reqs = [c \in Conns |-> IdleReq]
    /\ answers = {}
    /\ txs = {}
    /\ InitIndexerIdle

NextLocal ==
    \/ \E r \in LocalRequests : Arrive(r)
    \/ \E c \in Conns : ProveWrite(c)
    \/ \E c \in Conns : AnchorLoad(c)
    \/ \E c \in Conns : AnchorLocal(c)
    \/ \E c \in Conns, rpcOk \in BOOLEAN : AnchorFetchLastSeq(c, rpcOk)

SpecLocal == InitLocal /\ [][NextLocal]_vars

\* ------------------------------------------------------------------ SpecDS
\* buildDS called on two parameter records, as the unit tests call it.
\* buildDS(params) (part_017:4-28) on the record p; writeBigUInt64LE throws
\* on a number outside u64
buildDSOf(p) ==
    IF \/ u64leThrows(p.chainId) \/ u64leThrows(p.startSlot)
       \/ u64leThrows(p.endSlot) \/ u64leThrows(p.seq)
    THEN [threw |-> TRUE]
    ELSE [threw |-> FALSE,
          ret |-> buildDS(p.chainId, p.programId, p.proofHash, p.startSlot, p.endSlot, p.seq)]

BuildDSCall ==
    /\ call # Null
    /\ call.fn = "buildDS"
    /\ call.out = Null
    /\ call' = [call EXCEPT !.out = [a |-> buildDSOf(call.arg.a), b |-> buildDSOf(call.arg.b)]]
    /\ UNCHANGED << proofsTable, validatorsTable, indexerState, accounts, sigStatus,
                    ledgerEvents, idxPc, idxCycles, idxLog, scanAccounts >>
    /\ UNCHANGED << now, ticks, subStore >>

DSParams ==
    [chainId : {1, 256}, programId : {"program", "other"},
     proofHash : {blake3hash("x"), blake3hash("y"), Raw(blake3hash("x").v, 31)},
     startSlot : {0, 256}, endSlot : {1, 257}, seq : {1, 2, -1}]

InitDS ==
    /\ env = TestEnv(TRUE, "K1")
    /\ now = 0
    /\ config = NoConfig
    /\ aggState = Undefined
    /\ InitSubmitterCommon
    /\ proofsTable = {}
    /\ validatorsTable = {}
    /\ indexerState = IndexerStateRow
    /\ accounts = {}
    /\ sigStatus = << >>
    /\ ledgerEvents = 0
    /\ idxPc = "off"
    /\ idxCycles = 0
    /\ idxLog = NoLog
    /\ scanAccounts = Null
    /\ call \in {[fn |-> "buildDS", arg |-> [a |-> x, b |-> y], out |-> Null] :
                    x \in DSParams, y \in DSParams}

NextDS == BuildDSCall

SpecDS == InitDS /\ [][NextDS]_vars

\* ------------------------------------------------ canonical JSON (crypto.ts)
\* A JSON value: null, a number, a boolean, a string (a sequence of
\* characters), an array, or an object given by its entries << key, value >>
\* in the order Object.keys lists them; keys are distinct, a value under a key
\* may be undefined.
JBool(b) == [t |-> "boolean", v |-> b]
JArr(items) == [t |-> "array", items |-> items]
JObj(entries) == [t |-> "object", entries |-> entries]

\* The text is a sequence of tokens: a punctuation mark, a literal, the digits
\* of a number, or a quoted string; the content of a token is a sequence of
\* pieces of text.
Tok(k, v) == [k |-> k, v |-> v]
Punct(c) == Tok("punct", << c >>)

\* JSON.stringify of a number, a boolean or a string
JSONstringify(v) ==
    CASE v.t = "number" ->
            Tok("num", IF v.v < 0 THEN <<"-">> \o DecimalOf(0 - v.v) ELSE DecimalOf(v.v))
      [] v.t = "boolean" -> Tok("lit", IF v.v THEN << "true" >> ELSE << "false" >>)
      [] v.t = "string" -> Tok("str", v.v)

\* Array.prototype.join(",") on pieces of text
RECURSIVE joinComma(_)
joinComma(parts) ==
    IF parts = << >> THEN << >>
    ELSE IF Len(parts) = 1 THEN parts[1]
    ELSE parts[1] \o << Punct(",") >> \o joinComma(Tail(parts))

\* the keys that occur, in ascending order of their UTF-16 code units
CodeUnitOrder ==
    << "10", "9", "B", "__proto__", "a", "b", "constructor", "prototype", "u" >>
CodeUnitRank(k) == CHOOSE i \in 1..Len(CodeUnitOrder) : CodeUnitOrder[i] = k

\* Array.prototype.sort() on strings
RECURSIVE sortKeys(_)
sortKeys(ks) ==
    IF ks = << >> THEN << >>
    ELSE LET m == CHOOSE i \in 1..Len(ks) :
                     \A j \in 1..Len(ks) : CodeUnitRank(ks[i]) <= CodeUnitRank(ks[j])
         IN << ks[m] >> \o sortKeys(SubSeq(ks, 1, m - 1) \o SubSeq(ks, m + 1, Len(ks)))

ObjectKeys(obj) == [i \in 1..Len(obj.entries) |-> obj.entries[i][1]]
Member(obj, k) == obj.entries[CHOOSE i \in 1..Len(obj.entries) : obj.entries[i][1] = k][2]
PollutionKeys == {"__proto__", "constructor", "prototype"}

\* the entries written in the order Object.keys gives them
RECURSIVE canonicalizeUnsorted(_)
canonicalizeUnsorted(v) ==
    IF v.t = "null" THEN << Tok("lit", << "null" >>) >>
    ELSE IF v.t \in {"number", "boolean", "string"} THEN << JSONstringify(v) >>
    ELSE IF v.t = "array"
    THEN << Punct("[") >>
         \o joinComma([i \in 1..Len(v.items) |-> canonicalizeUnsorted(v.items[i])])
         \o << Punct("]") >>
    ELSE LET keys == SelectSeq(ObjectKeys(v),
                         LAMBDA k : Member(v, k).t # "undefined" /\ k \notin PollutionKeys)
         IN << Punct("{") >>
            \o joinComma([i \in 1..Len(keys) |->
                   << Tok("str", << keys[i] >>), Punct(":") >>
                   \o canonicalizeUnsorted(Member(v, keys[i]))])
            \o << Punct("}") >>

\* canonicalize / stringifyCanonical (part_017:30-60)
RECURSIVE canonicalize(_)
canonicalize(v) ==
    IF v.t = "null" THEN << Tok("lit", << "null" >>) >>
    ELSE IF v.t \in {"number", "boolean", "string"} THEN << JSONstringify(v) >>
    ELSE IF v.t = "array"
    THEN << Punct("[") >>
         \o joinComma([i \in 1..Len(v.items) |-> canonicalize(v.items[i])])
         \o << Punct("]") >>
    ELSE LET keys == sortKeys(SelectSeq(ObjectKeys(v),
                         LAMBDA k : Member(v, k).t # "undefined" /\ k \notin PollutionKeys))
         IN << Punct("{") >>
            \o joinComma([i \in 1..Len(keys) |->
                   << Tok("str", << keys[i] >>), Punct(":") >> \o canonicalize(Member(v, keys[i]))])
            \o << Punct("}") >>

\* JSON.parse on the tokens of a well-formed text: [val, rest]
RECURSIVE ParseDigits(_)
ParseDigits(ds) ==
    IF ds = << >> THEN 0
    ELSE 10 * ParseDigits(SubSeq(ds, 1, Len(ds) - 1))
         + (CHOOSE n \in 0..9 : DecimalOf(n) = << ds[Len(ds)] >>)

RECURSIVE parseValue(_)
RECURSIVE parseItems(_, _)
RECURSIVE parseMembers(_, _)

parseValue(ts) ==
    LET h == Head(ts)
    IN CASE h.k = "lit" ->
               [val |-> IF h.v = << "null" >> THEN Null ELSE JBool(h.v = << "true" >>),
                rest |-> Tail(ts)]
         [] h.k = "num" ->
               [val |-> Num(IF Head(h.v) = "-" THEN 0 - ParseDigits(Tail(h.v))
                            ELSE ParseDigits(h.v)),
                rest |-> Tail(ts)]
         [] h.k = "str" -> [val |-> Str(h.v), rest |-> Tail(ts)]
         [] h.k = "punct" /\ h.v = << "[" >> -> parseItems(Tail(ts), << >>)
         [] h.k = "punct" /\ h.v = << "{" >> -> parseMembers(Tail(ts), << >>)

parseItems(ts, acc) ==
    LET h == Head(ts)
    IN IF h.k = "punct" /\ h.v = << "]" >> THEN [val |-> JArr(acc), rest |-> Tail(ts)]
       ELSE IF h.k = "punct" /\ h.v = << "," >> THEN parseItems(Tail(ts), acc)
       ELSE LET r == parseValue(ts) IN parseItems(r.rest, Append(acc, r.val))

parseMembers(ts, acc) ==
    LET h == Head(ts)
    IN IF h.k = "punct" /\ h.v = << "}" >> THEN [val |-> JObj(acc), rest |-> Tail(ts)]
       ELSE IF h.k = "punct" /\ h.v = << "," >> THEN parseMembers(Tail(ts), acc)
       ELSE LET r == parseValue(SubSeq(ts, 3, Len(ts)))
            IN parseMembers(r.rest, Append(acc, << h.v[1], r.val >>))

JSONparse(ts) == parseValue(ts).val

\* ------------------------------------------------- account decoders (codec.ts)
\* Account data is a Buffer given byte by byte.  A byte is [n |-> 0..255] where
\* its value matters (numbers, the status) and [of |-> x, at |-> i], the i-th
\* byte of the opaque value x, where only its identity matters (keys, digests).
ConcreteBytes(bs) == [i \in 1..Len(bs) |-> [n |-> bs[i]]]
OpaqueBytes(x, n) == [i \in 1..n |-> [of |-> x, at |-> i]]
ByteValues(bytes) == [i \in 1..Len(bytes) |-> bytes[i].n]

\* the bytes of a Buffer.concat of chunks; numeric names the chunks that hold
\* encoded numbers
RECURSIVE BufferBytesFrom(_, _, _)
BufferBytesFrom(chunks, numeric, i) ==
    IF i > Len(chunks) THEN << >>
    ELSE (IF i \in numeric THEN ConcreteBytes(chunks[i].v)
          ELSE OpaqueBytes(chunks[i].v, chunks[i].w))
         \o BufferBytesFrom(chunks, numeric, i + 1)
BufferBytes(chunks, numeric) == BufferBytesFrom(chunks, numeric, 1)

\* data.subarray(s, e): clipped to the buffer
subarray(data, s, e) == SubSeq(data, s + 1, IF e > Len(data) THEN Len(data) ELSE e)

\* bs58.encode: one string per byte string
bs58encode(bytes) == [bs58 |-> bytes]

\* uuidFrom16 (codec.ts:88-94): the hex pair of each byte, dashes after bytes
\* 4, 6, 8 and 10
uuidFrom16(b) ==
    LET hex(i, j) == [k \in 1..(j - i + 1) |-> [hex |-> b[i + k - 1]]]
        dash == << [dash |-> "-"] >>
    IN hex(1, 4) \o dash \o hex(5, 6) \o dash \o hex(7, 8) \o dash \o hex(9, 10) \o dash
       \o hex(11, Len(b))

\* data.readBigUInt64LE(o), readBigInt64LE(o), readUInt32LE(o): the integer,
\* kept as its bytes
readBigUInt64LE(data, o) == [u64 |-> SubSeq(data, o + 1, o + 8)]
readBigInt64LE(data, o) == [i64 |-> SubSeq(data, o + 1, o + 8)]
readUInt32LE(data, o) == [u32 |-> SubSeq(data, o + 1, o + 4)]

RECURSIVE IncLE(_)
IncLE(bs) ==
    IF bs = << >> THEN << >>
    ELSE IF Head(bs) = 255 THEN << 0 >> \o IncLE(Tail(bs))
    ELSE << Head(bs) + 1 >> \o Tail(bs)

\* Number(bigint) of a signed 64-bit integer: the nearest double, given by its
\* sign and the 8 bytes of its magnitude, ties to the even mantissa.  Below
\* 2^53 every integer is a double; from 2^53 to 2^54 only the even ones are.
\* (Magnitudes from 2^54 on are not modelled.)
NumberOfBigInt(big) ==
    LET bs == ByteValues(big.i64)
        neg == bs[8] >= 128
        m == IF neg THEN IncLE([i \in 1..8 |-> 255 - bs[i]]) ELSE bs
        rounded == IF m[8] = 0 /\ m[7] < 32 THEN m
                   ELSE IF m[1] % 2 = 0 THEN m
                   ELSE IF m[1] % 4 = 1 THEN [m EXCEPT ![1] = m[1] - 1]
                   ELSE IncLE(m)
    IN [neg |-> neg, mag |-> rounded]

\* BigInt.prototype.toString() of a u64 below 2^31
toStringU64(bytes) == DecimalOf(LEValue(ByteValues(bytes)))

\* a decoder that reads the fields in the order of the instruction payload
decodeProofRecordPayloadOrder(data) ==
    IF Len(data) < 220 THEN [threw |-> TRUE]
    ELSE [threw |-> FALSE,
          ret |-> [artifact_id |-> uuidFrom16(subarray(data, 8, 24)),
                   proof_hash |-> subarray(data, 24, 56),
                   seq |-> readBigUInt64LE(data, 56),
                   start_slot |-> readBigUInt64LE(data, 64),
                   end_slot |-> readBigUInt64LE(data, 72),
                   artifact_len |-> readUInt32LE(data, 80),
                   state_root_before |-> subarray(data, 84, 116),
                   state_root_after |-> subarray(data, 116, 148),
                   submitted_by |-> bs58encode(<< >>),
                   aggregator_pubkey |-> bs58encode(subarray(data, 148, 180)),
                   timestamp |-> readBigInt64LE(data, 180),
                   ds_hash |-> subarray(data, 188, 220)]]

\* decodeProofRecord (codec.ts:28-68); the reads of integers throw a
\* RangeError past the end of the buffer, the last of them at offset 212
decodeProofRecord(data) ==
    IF Len(data) < 220 THEN [threw |-> TRUE]
    ELSE [threw |-> FALSE,
          ret |-> [artifact_id |-> uuidFrom16(subarray(data, 8, 24)),
                   start_slot |-> readBigUInt64LE(data, 24),
                   end_slot |-> readBigUInt64LE(data, 32),
                   proof_hash |-> subarray(data, 40, 72),
                   artifact_len |-> readUInt32LE(data, 72),
                   state_root_before |-> subarray(data, 76, 108),
                   state_root_after |-> subarray(data, 108, 140),
                   submitted_by |-> bs58encode(subarray(data, 140, 172)),
                   aggregator_pubkey |-> bs58encode(subarray(data, 172, 204)),
                   timestamp |-> readBigInt64LE(data, 204),
                   seq |-> readBigUInt64LE(data, 212),
                   ds_hash |-> subarray(data, 220, 252)]]

\* decodeValidatorRecord (codec.ts:72-86)
decodeValidatorRecord(data) ==
    IF Len(data) < 89 THEN [threw |-> TRUE]
    ELSE LET status_u8 == data[81].n
         IN [threw |-> FALSE,
             ret |-> [pubkey |-> bs58encode(subarray(data, 8, 40)),
                      escrow |-> bs58encode(subarray(data, 40, 72)),
                      lock_ts |-> NumberOfBigInt(readBigInt64LE(data, 72)),
                      status |-> IF status_u8 = 0 THEN "Active" ELSE "Unlocked",
                      num_accepts |-> toStringU64(subarray(data, 81, 89))]]

\* ------------------------------------------- safe filesystem helpers
\* A path string is [abs, segs]: whether it starts with "/", and its pieces
\* between slashes, each a sequence of characters ("" is [FALSE, << >>]).
Dot == << "." >>
DotDot == << ".", "." >>
PathOf(abs, segs) == [abs |-> abs, segs |-> segs]
Cwd == PathOf(TRUE, << << "w" >> >>)

\* path.normalize on the pieces: "" and "." are dropped, ".." removes the piece
\* before it, stays at the root of an absolute path, and is kept at the head of
\* a relative one
RECURSIVE normalizeSegs(_, _, _)
normalizeSegs(segs, acc, abs) ==
    IF segs = << >> THEN acc
    ELSE LET h == Head(segs)
             acc1 == IF h = << >> \/ h = Dot THEN acc
                     ELSE IF h = DotDot
                     THEN IF acc # << >> /\ acc[Len(acc)] # DotDot
                          THEN SubSeq(acc, 1, Len(acc) - 1)
                          ELSE IF abs THEN acc ELSE Append(acc, h)
                     ELSE Append(acc, h)
         IN normalizeSegs(Tail(segs), acc1, abs)

\* path.resolve(p) in the working directory Cwd
pathResolve(pth) ==
    IF pth.abs THEN PathOf(TRUE, normalizeSegs(pth.segs, << >>, TRUE))
    ELSE PathOf(TRUE, normalizeSegs(Cwd.segs \o pth.segs, << >>, TRUE))

\* path.join(p, ...segs)
pathJoin(pth, segs) == PathOf(pth.abs, normalizeSegs(pth.segs \o segs, << >>, pth.abs))

RECURSIVE commonPrefixLen(_, _)
commonPrefixLen(a, b) ==
    IF a = << >> \/ b = << >> \/ Head(a) # Head(b) THEN 0
    ELSE 1 + commonPrefixLen(Tail(a), Tail(b))

RECURSIVE joinSlash(_)
joinSlash(segs) ==
    IF segs = << >> THEN << >>
    ELSE IF Len(segs) = 1 THEN segs[1]
    ELSE segs[1] \o << "/" >> \o joinSlash(Tail(segs))

\* path.relative(from, to) of two resolved paths, as a string of characters
pathRelative(from, to) ==
    LET k == commonPrefixLen(from.segs, to.segs)
    IN joinSlash([i \in 1..(Len(from.segs) - k) |-> DotDot]
                 \o SubSeq(to.segs, k + 1, Len(to.segs)))

startsWith(str, prefix) ==
    Len(str) >= Len(prefix) /\ SubSeq(str, 1, Len(prefix)) = prefix
pathIsAbsolute(str) == startsWith(str, << "/" >>)

\* a test that only looks for an absolute relative path
isSubpathNoClimbTest(parent, child) ==
    LET rel == pathRelative(pathResolve(parent), pathResolve(child))
    IN rel = << >> \/ ~pathIsAbsolute(rel)

\* isSubpath (part_016:271-276)
isSubpath(parent, child) ==
    LET rel == pathRelative(pathResolve(parent), pathResolve(child))
    IN rel = << >> \/ (~startsWith(rel, DotDot) /\ ~pathIsAbsolute(rel))

\* resolveWithinAllowed (part_016:277-287); an empty root is passed over
RECURSIVE firstAllowing(_, _, _)
firstAllowing(roots, i, absTarget) ==
    IF i > Len(roots) THEN 0
    ELSE IF roots[i] # PathOf(FALSE, << >>) /\ isSubpath(roots[i], absTarget) THEN i
    ELSE firstAllowing(roots, i + 1, absTarget)

resolveWithinAllowed(targetPath, allowedRoots) ==
    LET absTarget == pathResolve(targetPath)
    IN IF firstAllowing(allowedRoots, 1, absTarget) # 0
       THEN [threw |-> FALSE, ret |-> absTarget]
       ELSE [threw |-> TRUE, message |-> "PathNotAllowed"]

\* safeAllowedRootsForKeys (part_016:288-293), safeAllowedRootsForArtifacts
\* (part_016:294-296)
safeAllowedRootsForKeys(userProfile) ==
    << pathJoin(Cwd, << << "k" >> >>) >>
    \o (IF userProfile = Undefined THEN << >>
        ELSE << pathJoin(userProfile, << << "c" >>, << "s" >> >>) >>)
safeAllowedRootsForArtifacts(artifactDir) == << artifactDir >>

\* safeReadTextFile, safeWriteFile, safeMkdir, safeReaddir (part_016:297-319):
\* the file operation runs on the resolved path, or the helper throws
safeFsOp(op, filePath, allowedRoots) ==
    LET r == resolveWithinAllowed(filePath, allowedRoots)
    IN IF r.threw THEN [threw |-> TRUE, message |-> r.message, ops |-> << >>]
       ELSE [threw |-> FALSE, message |-> "", ops |-> << [op |-> op, path |-> r.ret] >>]

\* --------------------------------------------------------------- SpecCodec
\* The encoders and decoders called on their own, as the unit tests call them.
\* a function of the codec returns
CodecCall(fn, out) ==
    /\ call # Null
    /\ call.fn = fn
    /\ call.out = Null
    /\ call' = [call EXCEPT !.out = out]
    /\ UNCHANGED << proofsTable, validatorsTable, indexerState, accounts, sigStatus,
                    ledgerEvents, idxPc, idxCycles, idxLog, scanAccounts >>
    /\ UNCHANGED << now, ticks, subStore >>

EncodeCall == CodecCall("encodeAnchorProofArgsBorsh", encodeAnchorProofArgsBorsh(call.arg))

Bytes16(x) == Raw([id |-> x], 16)
Bytes32(x) == Raw([h |-> x], 32)

EncodeParams ==
    [artifactId : {Bytes16("a"), Bytes16("b"), Raw([id |-> "a"], 15)},
     proofHash32 : {Bytes32("p"), Bytes32("q")},
     seqLe : {u64le(1), u64le(256)},
     startLe : {u64le(2)},
     endLe : {u64le(2), u64le(513)},
     artifactLen : {0, 381, 65537},
     stateRootBefore : {Bytes32("r0")},
     stateRootAfter : {Bytes32("r1"), Bytes32("r0")},
     aggregatorPubkey : {"K1", "K2"},
     timestampLe : {i64le(1700000000), i64le(-1)},
     dsHash32 : {Bytes32("d")}]

\* canonicalize on scalars, arrays and objects two levels deep, with every
\* pair of keys in both orders, values that are undefined, and the three
\* names the function drops
CanonicalizeCall ==
    CodecCall("canonicalize", [threw |-> FALSE, ret |-> canonicalize(call.arg)])

JsonLeaves == {Null, Num(0), Num(-7), Num(120), JBool(TRUE), JBool(FALSE), Str(<<"x">>)}
JsonInner ==
    {Num(1), Null, Undefined, Str(<<"B">>),
     JArr(<< Num(2), Null >>),
     JArr(<< JObj(<< <<"b", Num(1)>>, <<"a", Str(<< >>)>> >>) >>),
     JArr(<< JObj(<< <<"a", Str(<< >>)>>, <<"b", Num(1)>> >>) >>),
     JObj(<< <<"b", Num(1)>>, <<"a", Num(2)>> >>),
     JObj(<< <<"a", Num(2)>>, <<"b", Num(1)>> >>),
     JObj(<< <<"9", JBool(TRUE)>>, <<"10", Num(2)>>, <<"u", Undefined>> >>),
     JObj(<< <<"__proto__", Num(3)>>, <<"prototype", Null>> >>),
     JObj(<< >>)}
JsonOuterKeys == {"a", "B", "constructor"}
JsonInputs ==
    JsonLeaves
    \cup {JArr(<< v1, v2 >>) : v1, v2 \in JsonInner \ {Undefined}}
    \cup {JObj(<< << k[1], v1 >>, << k[2], v2 >> >>) :
             k \in {kk \in JsonOuterKeys \X JsonOuterKeys : kk[1] # kk[2]},
             v1 \in JsonInner, v2 \in JsonInner}

\* The decoders on accounts laid out as the unit tests lay them out
\* (part_008:14-82), whole or cut short, and decodeProofRecord on the bytes of
\* an instruction payload as well.
DecodeValidatorCall == CodecCall("decodeValidatorRecord", decodeValidatorRecord(call.arg))
DecodeProofCall == CodecCall("decodeProofRecord", decodeProofRecord(call.arg))

Disc(label) == OpaqueBytes(sha256_8(label).v, 8)
RESERVED_LEN == 47

\* lock_ts values: 20, -1, and the integers around 2^53 and below 2^54
LockBytes ==
    {i64le(20).v, i64le(-1).v, << 255, 255, 255, 255, 255, 255, 63, 0 >>}
    \cup {<< k, 0, 0, 0, 0, 0, 32, 0 >> : k \in 0..3}

ValidatorFields ==
    [pubkey : {[key |-> "v1"]}, escrow : {[key |-> "e1"], [key |-> "e2"]},
     lock : LockBytes, status : {0, 1, 2, 255}, num : {0, 5}]

ValidatorAccountBytes(f) ==
    Disc("account:ValidatorRecord") \o OpaqueBytes(f.pubkey, 32) \o OpaqueBytes(f.escrow, 32)
    \o ConcreteBytes(f.lock) \o ConcreteBytes(<< f.status >>)
    \o ConcreteBytes(LEBytes(f.num, 8)) \o ConcreteBytes([i \in 1..RESERVED_LEN |-> 0])

ProofFields ==
    [artifactId : {[id |-> "a"], [id |-> "b"]}, proofHash : {[h |-> "p"]},
     seq : {1, 256}, start : {2}, end : {2, 513}, artifactLen : {0, 381},
     stateRootBefore : {[h |-> "r0"]}, stateRootAfter : {[h |-> "r1"], [h |-> "r0"]},
     submittedBy : {[key |-> "payer"]}, aggregator : {[key |-> "K1"]},
     timestamp : {1700000000, -1}, dsHash : {[h |-> "d"]}]

ProofAccountBytes(f) ==
    Disc("account:ProofRecord") \o OpaqueBytes(f.artifactId, 16)
    \o ConcreteBytes(LEBytes(f.start, 8)) \o ConcreteBytes(LEBytes(f.end, 8))
    \o OpaqueBytes(f.proofHash, 32) \o ConcreteBytes(LEBytes(f.artifactLen, 4))
    \o OpaqueBytes(f.stateRootBefore, 32) \o OpaqueBytes(f.stateRootAfter, 32)
    \o OpaqueBytes(f.submittedBy, 32) \o OpaqueBytes(f.aggregator, 32)
    \o ConcreteBytes(LEBytes(f.timestamp, 8)) \o ConcreteBytes(LEBytes(f.seq, 8))
    \o OpaqueBytes(f.dsHash, 32)

\* the chunks of the payload that hold numbers: seq, the slots, artifact_len
\* and the timestamp
PayloadNumeric == {4, 5, 6, 7, 11}
PayloadBytes(f) ==
    BufferBytes(encodeAnchorProofArgsBorsh(
                    [artifactId |-> Raw(f.artifactId, 16), proofHash32 |-> Raw(f.proofHash, 32),
                     seqLe |-> u64le(f.seq), startLe |-> u64le(f.start),
                     endLe |-> u64le(f.end), artifactLen |-> f.artifactLen,
                     stateRootBefore |-> Raw(f.stateRootBefore, 32),
                     stateRootAfter |-> Raw(f.stateRootAfter, 32),
                     aggregatorPubkey |-> f.aggregator,
                     timestampLe |-> i64le(f.timestamp), dsHash32 |-> Raw(f.dsHash, 32)]),
                PayloadNumeric)

DecodeCalls ==
    {[fn |-> "decodeValidatorRecord", arg |-> SubSeq(ValidatorAccountBytes(f), 1, n),
      out |-> Null] : f \in ValidatorFields, n \in {88, 89 + RESERVED_LEN}}
    \cup {[fn |-> "decodeProofRecord", layout |-> "account", fields |-> f,
           arg |-> SubSeq(ProofAccountBytes(f), 1, n), out |-> Null] :
             f \in ProofFields, n \in {219, 220, 252}}
    \cup {[fn |-> "decodeProofRecord", layout |-> "payload", fields |-> f,
           arg |-> PayloadBytes(f), out |-> Null] : f \in ProofFields}

CodecCalls ==
    {[fn |-> "encodeAnchorProofArgsBorsh", arg |-> p, out |-> Null] : p \in EncodeParams}
    \cup {[fn |-> "canonicalize", arg |-> v, out |-> Null] : v \in JsonInputs}
    \cup DecodeCalls

InitCodec ==
    /\ env = TestEnv(TRUE, "K1")
    /\ now = 0
    /\ config = NoConfig
    /\ aggState = Undefined
    /\ InitSubmitterCommon
    /\ proofsTable = {}
    /\ validatorsTable = {}
    /\ indexerState = IndexerStateRow
    /\ accounts = {}
    /\ sigStatus = << >>
    /\ ledgerEvents = 0
    /\ idxPc = "off"
    /\ idxCycles = 0
    /\ idxLog = NoLog
    /\ scanAccounts = Null
    /\ call \in CodecCalls

NextCodec ==
    \/ EncodeCall
    \/ CanonicalizeCall
    \/ DecodeValidatorCall
    \/ DecodeProofCall

SpecCodec == InitCodec /\ [][NextCodec]_vars

\* ---------------------------------------------------------------- SpecUuid
\* uuidFromHash32 on hashes of 15, 16 and 32 bytes whose bytes at offsets 6
\* and 8 have all, none or some of the bits the function overwrites, next to
\* /prove and /artifact requests that agree or differ in the four fields, in
\* the letter case of the roots, in the route and in the caller.
UuidCall == CodecCall("uuidFromHash32", uuidFromHash32Bytes(call.arg))

HashLens == {15, 16, 32}
HashBytes == {<< 0, 0 >>, << 255, 255 >>, << 75, 180 >>, << 180, 75 >>}
HashOf(n, b6, b8) ==
    [i \in 1..n |-> IF i = 7 THEN b6 ELSE IF i = 9 THEN b8 ELSE (i * 37 + n) % 256]

UuidCalls ==
    {[fn |-> "uuidFromHash32", arg |-> HashOf(n, b[1], b[2]), out |-> Null] :
        n \in HashLens, b \in HashBytes}

UuidRequests ==
    { Post("/prove", "ip1", Key1, Undefined, BodyA),
      Post("/artifact", "ip2", Key2, Undefined, BodyAUpper),
      Post("/prove", "ip3", Key3, Undefined, BodyB),
      Post("/artifact", "ip1", Key1Padded, Undefined, BodyNoRoot) }

InitUuid ==
    /\ env = TestEnv(TRUE, "K1")
    /\ now = 0
    /\ config = NoConfig
    /\ aggState = Undefined
    /\ InitSubmitterCommon
    /\ proofsTable = {}
    /\ validatorsTable = {}
    /\ indexerState = IndexerStateRow
    /\ accounts = {}
    /\ sigStatus = << >>
    /\ ledgerEvents = 0
    /\ idxPc = "off"
    /\ idxCycles = 0
    /\ idxLog = NoLog
    /\ scanAccounts = Null
    /\ call \in UuidCalls

NextUuid ==
    \/ UuidCall
    \/ \E r \in UuidRequests : Arrive(r)
    \/ \E c \in Conns : ProveWrite(c)

SpecUuid == InitUuid /\ [][NextUuid]_vars

\* --------------------------------------------------------------- SpecPaths
\* The filesystem helpers called on their own, on the paths the handlers build
\* and on paths that try to leave the allow-listed directories.
SafeWriteFileCall ==
    CodecCall("safeWriteFile",
              safeFsOp("writeFile", call.arg, safeAllowedRootsForArtifacts(call.artifactDir)))
SafeMkdirCall ==
    CodecCall("safeMkdir",
              safeFsOp("mkdir", call.arg, safeAllowedRootsForArtifacts(call.artifactDir)))
SafeReaddirCall ==
    CodecCall("safeReaddir",
              safeFsOp("readdir", call.arg, safeAllowedRootsForArtifacts(call.artifactDir)))
\* loadAggregatorSecret (part_016:493) and the fee payer (part_016:1030)
SafeReadKeyCall ==
    CodecCall("safeReadTextFile",
              safeFsOp("readFileSync", call.arg, safeAllowedRootsForKeys(call.userProfile)))

MaxSegs == 3
PathNames == {DotDot, Dot, << "a" >>, << "k" >>, << ".", ".", "x" >>, << "w" >>}
PathInputs ==
    {PathOf(abs, segs) : abs \in BOOLEAN,
                         segs \in UNION {[1..n -> PathNames] : n \in 0..MaxSegs}}
ArtifactDirs ==
    {PathOf(FALSE, << Dot, << "a" >> >>), PathOf(TRUE, << << "a" >> >>),
     PathOf(FALSE, << DotDot, << "a" >>, << ".", ".", "x" >> >>)}
UserProfiles == {Undefined, PathOf(TRUE, << << "a" >> >>)}
\* the day directory and the artifact file of /prove and /artifact
\* (part_016:598-600, 706-708)
DayDir(artifactDir) == pathJoin(artifactDir, << << "y" >>, << "m" >>, << "d" >> >>)
ArtifactTarget(artifactDir) == pathJoin(DayDir(artifactDir), << << "i", "d" >> >>)

PathCalls ==
    UNION {{[fn |-> helper, artifactDir |-> root, userProfile |-> Undefined, arg |-> t,
             out |-> Null] :
               helper \in {"safeWriteFile", "safeMkdir", "safeReaddir"},
               t \in PathInputs \cup {DayDir(root), ArtifactTarget(root)}} :
           root \in ArtifactDirs}
    \cup {[fn |-> "safeReadTextFile", artifactDir |-> PathOf(TRUE, << << "a" >> >>),
           userProfile |-> u, arg |-> t, out |-> Null] :
             u \in UserProfiles,
             t \in PathInputs \cup {PathOf(FALSE, << Dot, << "k" >>, << "j" >> >>),
                                    PathOf(TRUE, << << "a" >>, << "c" >>, << "s" >>, << "j" >> >>)}}

InitPaths ==
    /\ env = TestEnv(TRUE, "K1")
    /\ now = 0
    /\ config = NoConfig
    /\ aggState = Undefined
    /\ InitSubmitterCommon
    /\ proofsTable = {}
    /\ validatorsTable = {}
    /\ indexerState = IndexerStateRow
    /\ accounts = {}
    /\ sigStatus = << >>
    /\ ledgerEvents = 0
    /\ idxPc = "off"
    /\ idxCycles = 0
    /\ idxLog = NoLog
    /\ scanAccounts = Null
    /\ call \in PathCalls

NextPaths == SafeWriteFileCall \/ SafeMkdirCall \/ SafeReaddirCall \/ SafeReadKeyCall

SpecPaths == InitPaths /\ [][NextPaths]_vars

\* -------------------------------------------------------------- SpecErrors
\* mapProgramError on messages that carry a listed name or code inside other
\* text, in another letter case, two at once, or not at all, and on values
\* that are not Error objects.
ErrAffixes == {<< >>, <<"1">>, <<"ms">>, <<"custom program error: ">>}

ErrCores ==
    {<<errorTable[i].name>> : i \in DOMAIN errorTable}
    \cup {errorTable[i].digits : i \in DOMAIN errorTable}
    \cup { <<"paused">>, <<"PAUSED">>, <<"nonmonotonicseq">>, <<"invalidmint">>,
           <<"some unexpected failure">>, <<"fetch failed">>, <<"6", "0", "0">>, << >>,
           <<"Paused", " ", "6", "0", "1", "5">>, <<"RangeOverlap", " ", "NonMonotonicSeq">> }

ErrInputs ==
    {Error(p \o c \o x) : p \in ErrAffixes, c \in ErrCores, x \in ErrAffixes}
    \cup {Str(c) : c \in ErrCores}
    \cup {Undefined, Null, Num(6015), Num(16000), Num(7)}

InitErrors ==
    /\ env = TestEnv(TRUE, "K1")
    /\ now = 0
    /\ config = NoConfig
    /\ aggState = Undefined
    /\ InitSubmitterCommon
    /\ proofsTable = {}
    /\ validatorsTable = {}
    /\ indexerState = IndexerStateRow
    /\ accounts = {}
    /\ sigStatus = << >>
    /\ ledgerEvents = 0
    /\ idxPc = "off"
    /\ idxCycles = 0
    /\ idxLog = NoLog
    /\ scanAccounts = Null
    /\ call \in {[fn |-> "mapProgramError", arg |-> e, out |-> Null] : e \in ErrInputs}

NextErrors == MapProgramErrorCall

SpecErrors == InitErrors /\ [][NextErrors]_vars

\* ------------------------------------------------------------- SpecIndexer
\* The indexer's polling loop against a ledger that holds proof and validator
\* records and reports signature statuses.  A scan is one step here; the
\* account-change callback, which writes validatorsTable only, runs in SpecStream,
\* where the scan is opened at its await.
ProofRecord(key, start, end, ts, seq, sig) ==
    [kind |-> "proof", key |-> key, artifact_id |-> key, start_slot |-> start, end_slot |-> end,
     timestamp |-> ts, seq |-> seq, sig |-> sig]
ValidatorRecord(pubkey, status, n) ==
    [kind |-> "validator", key |-> pubkey, pubkey |-> pubkey, status |-> status,
     escrow |-> "escrow", lock_ts |-> 1, num_accepts |-> n]

Status(cs, err) == [t |-> "status", confirmationStatus |-> cs, err |-> err]
LedgerStatuses ==
    {Null, Status("processed", FALSE), Status("confirmed", FALSE),
     Status("finalized", FALSE), Status("confirmed", TRUE)}
LedgerSigs == {"s1", "s2"}

LedgerRecords ==
    { ProofRecord("p1", 1, 64, 40, 1, "s1"),
      ProofRecord("p2", 65, 400, 39, 2, "s2"),
      ProofRecord("p3", 401, 410, 40, 3, ""),
      ValidatorRecord("v1", "Active", 1) }

\* getSlot(): the ledger's slot, or Null when the call throws
GetSlotResults == {Null, Num(300)}

IdxTickDeltas == {1}

InitIndexer ==
    /\ env = TestEnv(FALSE, "K1")
    /\ now = 100000
    /\ config = NoConfig
    /\ aggState = Undefined
    /\ InitSubmitterCommon
    /\ proofsTable = {}
    /\ validatorsTable = {}
    /\ indexerState = IndexerStateRow
    /\ accounts \in {{}, {ProofRecord("p1", 1, 64, 40, 1, "s1")}}
    /\ sigStatus = << >>
    /\ ledgerEvents = 0
    /\ idxPc = "scan"
    /\ idxCycles = 1
    /\ idxLog = NoLog
    /\ scanAccounts = Null
    /\ call = Null

NextIndexer ==
    \/ \E order \in Perms(accounts), failAt \in 0..(Cardinality(accounts) + 1),
          slot \in GetSlotResults : ScanOnce(order, failAt, slot)
    \/ \E rows \in pendingSelections(proofsTable) :
          \E failAt \in 0..Len(rows) : ReconcilePending(rows, failAt)
    \/ Sleep
    \/ \E a \in LedgerRecords : LedgerRecord(a)
    \/ \E sig \in LedgerSigs, x \in LedgerStatuses : LedgerStatus(sig, x)
    \/ \E d \in IdxTickDeltas : Tick(d)

SpecIndexer == InitIndexer /\ [][NextIndexer]_vars

\* -------------------------------------------------------------- SpecStream
\* The polling loop together with the account-change subscription, the scan
\* opened at the await that follows getProgramAccounts.
StreamRecords ==
    { ProofRecord("p1", 1, 64, 40, 1, "s1"),
      ValidatorRecord("v1", "Active", 1) }
ValidatorChanges == { ValidatorRecord("v1", "Unlocked", 2) }
StreamStatuses == {Null, Status("confirmed", FALSE)}

InitStream ==
    /\ env = TestEnv(FALSE, "K1")
    /\ now = 100000
    /\ config = NoConfig
    /\ aggState = Undefined
    /\ InitSubmitterCommon
    /\ proofsTable = {}
    /\ validatorsTable = {}
    /\ indexerState = IndexerStateRow
    /\ accounts \in SUBSET StreamRecords
    /\ sigStatus = << >>
    /\ ledgerEvents = 0
    /\ idxPc = "scan"
    /\ idxCycles = 1
    /\ idxLog = NoLog
    /\ scanAccounts = Null
    /\ call = Null

NextStream ==
    \/ \E order \in Perms(accounts), rpcOk \in BOOLEAN : ScanFetch(order, rpcOk)
    \/ \E failAt \in 0..(IF idxPc = "scan_loop" THEN Len(scanAccounts) ELSE 0),
          slot \in GetSlotResults : ScanLoop(failAt, slot)
    \/ \E rows \in pendingSelections(proofsTable) :
          \E failAt \in 0..Len(rows) : ReconcilePending(rows, failAt)
    \/ Sleep
    \/ \E a \in accounts : AccountChange(a)
    \/ \E a \in StreamRecords : LedgerRecord(a)
    \/ \E v \in ValidatorChanges : LedgerValidatorChange(v)
    \/ \E x \in StreamStatuses : LedgerStatus("s1", x)

SpecStream == InitStream /\ [][NextStream]_vars

\* -------------------------------------------------------------- SpecRoutes
\* /prove, /artifact and /anchor in LOCAL_MODE, with one Idempotency-Key used
\* on more than one of them.
RouteRequests ==
    { Post("/prove", "ip1", Key1, Undefined, BodyA),
      Post("/anchor", "ip2", Key1, Undefined, AnchorBody(Str(IdOf(BodyA)))),
      Post("/anchor", "ip3", Key2, Undefined, AnchorBody(Str(IdOf(BodyA)))),
      Post("/artifact", "ip3", Key2, Undefined, BodyA) }

InitRoutes ==
    /\ env = TestEnv(TRUE, "K1")
    /\ now = 0
    /\ config = NoConfig
    /\ aggState = Undefined
    /\ InitSubmitterCommon
    /\ InitIndexerIdle

NextRoutes ==
    \/ \E r \in RouteRequests : Arrive(r)
    \/ \E c \in Conns : ProveWrite(c)
    \/ \E c \in Conns : AnchorLoad(c)
    \/ \E c \in Conns : AnchorLocal(c)

SpecRoutes == InitRoutes /\ [][NextRoutes]_vars

\* --------------------------------------------------------------- SpecCache
\* The submitter with a full idempotency cache: one client has sent
\* IDEMP_MAX_ENTRIES POSTs with malformed bodies under as many keys, one every
\* 10 ms; the first RATELIMIT_MAX were answered 400 by the handler, the others
\* 429, and every answer was cached.  Then a cached key is sent again, new
\* keys arrive, and a day may pass.
EarlierKey(i) == Str(<< "p" >> \o DecimalOf(i))
EarlierAnswer(i) ==
    [key |-> EarlierKey(i),
     status |-> IF i <= RATELIMIT_MAX THEN 400 ELSE 429,
     body |-> IF i <= RATELIMIT_MAX THEN Err("BadRequest", "missing or invalid fields")
              ELSE Err("RateLimitExceeded", "Too many requests"),
     ts |-> 10 * i]

CacheRequests ==
    { Post("/prove", "ip1", EarlierKey(1), Undefined, BodyA),
      Post("/prove", "ip2", Str(<< "n", "1" >>), Undefined, BodyB),
      Post("/artifact", "ip3", Str(<< "n", "2" >>), Undefined, BodyNoRoot) }

CacheTickDeltas == {IDEMP_TTL_MS}

InitCache ==
    /\ env = TestEnv(TRUE, "K1")
    /\ now = 10 * IDEMP_MAX_ENTRIES
    /\ config = NoConfig
    /\ aggState = Undefined
    /\ ticks = 0
    /\ nreq = 0
    /\ artifacts = << >>
    /\ files = << >>
    /\ fileWrites = 0
    /\ idempotencyCache = [i \in 1..IDEMP_MAX_ENTRIES |-> EarlierAnswer(i)]
    /\ idemSetCounter \in {IDEMP_MAX_ENTRIES, 2 * IDEMP_SWEEP_EVERY - 2}
    /\ localSeq = 0
    /\ rl = ("ip0" :> [count |-> RATELIMIT_MAX, ts |-> 10])
    /\ reqs = [c \in Conns |-> IdleReq]
    /\ answers = {EarlierAnswer(i) : i \in 1..IDEMP_MAX_ENTRIES}
    /\ txs = {}
    /\ InitIndexerIdle

NextCache ==
    \/ \E r \in CacheRequests : Arrive(r)
    \/ \E c \in Conns : ProveWrite(c)
    \/ \E d \in CacheTickDeltas : Tick(d)

SpecCache == InitCache /\ [][NextCache]_vars

\* --------------------------------------------------------------- SpecStore
\* upsertProof called on its own, as the database tests call it.
ProofTuples ==
    {[key |-> k, artifact_id |-> a, start_slot |-> 1, end_slot |-> 2, ts |-> 10, seq |-> 1,
      txid |-> x, commitment_level |-> l, proof_version |-> 1] :
        k \in {"p1", "p2"}, a \in {"a1", "a2"}, x \in {"s1", "s2"}, l \in {0, 1, 2}}

InitStore ==
    /\ env = TestEnv(TRUE, "K1")
    /\ now = 0
    /\ config = NoConfig
    /\ aggState = Undefined
    /\ InitSubmitterCommon
    /\ InitIndexerIdle

NextStore == \E p \in ProofTuples : UpsertProofCall(p)

SpecStore == InitStore /\ [][NextStore]_vars

\* ---------------------------------------------------------- SpecValidators
\* upsertValidator called on its own, as the database tests call it, with time
\* passing between the calls.
ValidatorTuples ==
    {[pubkey |-> k, status |-> st, escrow |-> e.escrow, lock_ts |-> e.lock_ts,
      num_accepts |-> n] :
        k \in {"v1", "v2"}, st \in {"Active", "Unlocked"},
        e \in {[escrow |-> "e1", lock_ts |-> 1], [escrow |-> "e2", lock_ts |-> 2]},
        n \in {0, 1}}

InitValidators == InitStore

NextValidators ==
    \/ \E v \in ValidatorTuples : UpsertValidatorCall(v)
    \/ Tick(1)

SpecValidators == InitValidators /\ [][NextValidators]_vars

\* ------------------------------------------------------- claims on SpecGate
Live(c) == reqs[c].pc # "idle"
IsAnswered(c) == Live(c) /\ reqs[c].resp # Undefined
RespIs(c, status, code) ==
    /\ IsAnswered(c)
    /\ reqs[c].resp.status = status
    /\ reqs[c].resp.body.kind = "error"
    /\ reqs[c].resp.body.code = code
\* connection c received a new request in this step
ArrivedOn(c) == reqs'[c].id # reqs[c].id
\* an Idempotency-Key header that is absent, or blank once trimmed
HeaderBlank(h) == typeof(h) = "undefined" \/ \A i \in 1..Len(h.v) : h.v[i] = " "

\* C4: after a POST with Idempotency-Key K was answered, every later POST with
\* the same K that arrives less than 24 h after that answer receives the
\* identical status and body, and the route handler does not run for it.
C4_ReplayIdentical ==
    \A c \in Conns :
        (Live(c) /\ reqs[c].req.method = "POST" /\ reqs[c].key # Null) =>
            \A a \in reqs[c].prior :
                (reqs[c].at - a.ts < IDEMP_TTL_MS) =>
                    /\ ~reqs[c].ran
                    /\ IsAnswered(c) => reqs[c].resp = [status |-> a.status, body |-> a.body]

C6_OverLimitIs429 ==
    \A c \in Conns : (Live(c) /\ reqs[c].rlFull) => RespIs(c, 429, "RateLimitExceeded")

\* C7: outside test mode, with no API key configured every request is refused
\* 401 AuthRequired; with keys configured a request to a protected route whose
\* x-api-key is missing or unlisted is refused 403 Forbidden; the route handler
\* runs in neither case.
ProtectedRoutes == {"/prove", "/artifact", "/anchor"}
C7_AuthEnforced ==
    env.NODE_ENV # "test" =>
        \A c \in Conns : Live(c) =>
            /\ env.API_KEYS = {} => (RespIs(c, 401, "AuthRequired") /\ ~reqs[c].ran)
            /\ ( /\ env.API_KEYS # {}
                 /\ reqs[c].req.route \in ProtectedRoutes
                 /\ (typeof(reqs[c].req.apikey) = "undefined"
                        \/ reqs[c].req.apikey.v \notin env.API_KEYS) )
               => (RespIs(c, 403, "Forbidden") /\ ~reqs[c].ran)

\* ------------------------------------------------------ claims on SpecProve
\* not a string of 64 hexadecimal characters
NotHex64(x) ==
    \/ typeof(x) # "string"
    \/ Len(x.v) # 64
    \/ \E i \in 1..Len(x.v) : x.v[i] \notin (HexLower \cup HexUpper)

RejectableBody(b) ==
    /\ typeof(b) = "object"
    /\ \/ NotHex64(b.state_root_before)
       \/ NotHex64(b.state_root_after)
       \/ /\ typeof(b.start_slot) = "number"
          /\ typeof(b.end_slot) = "number"
          /\ \/ b.end_slot.v < b.start_slot.v
             \/ b.end_slot.v - b.start_slot.v + 1 > 2048

\* C8: when the handler of POST /prove or POST /artifact runs on a body with a
\* state root that is not 64 hexadecimal characters, with end_slot < start_slot
\* or with a window of more than 2048 slots, the request is answered
\* 400 BadRequest in that step, and the step adds no entry to the artifact map
\* and writes no file.
C8_BadArtifactRejected ==
    [][\A c \in Conns :
          ( /\ ArrivedOn(c)
            /\ reqs'[c].req.method = "POST"
            /\ reqs'[c].req.route \in {"/prove", "/artifact"}
            /\ reqs'[c].ran
            /\ RejectableBody(reqs'[c].req.body) ) =>
              /\ reqs'[c].pc = "done"
              /\ reqs'[c].resp.status = 400
              /\ reqs'[c].resp.body.kind = "error"
              /\ reqs'[c].resp.body.code = "BadRequest"
              /\ UNCHANGED << artifacts, files, fileWrites >>]_vars

C8_Witness ==
    \E c \in Conns :
        /\ Live(c)
        /\ reqs[c].req.route = "/artifact"
        /\ reqs[c].req.body = BodyWide
        /\ reqs[c].ran
        /\ RespIs(c, 400, "BadRequest")
        /\ artifacts # << >>

\* ----------------------------------------------------- claims on SpecAnchor
\* the key the ledger accepts for seq: the next key from activation_seq on
AllowedKey(cfg, seq) ==
    CASE seq >= cfg.activation_seq -> cfg.next_aggregator_pubkey
      [] seq < cfg.activation_seq -> cfg.aggregator_pubkey

IsAnchor(c) == Live(c) /\ reqs[c].req.route = "/anchor"
Submitted(c) == \E e \in txs : e.rid = reqs[c].id
ReadConfig(c) == IsAnchor(c) /\ reqs[c].cfg # Undefined

\* C1: in non-local mode every transaction /anchor submits for a sequence seq is
\* signed by a local key equal to the allowed key of seq (the next key when
\* seq >= activation_seq, the current key otherwise); a request whose local key
\* differs from the allowed key of its seq is answered
\* 400 AggregatorKeyMismatch and submits nothing.
C1_AllowedKeyOnly ==
    ~env.LOCAL_MODE =>
        /\ \A e \in txs : PubOfSecret(env.AGG_SECRET) = AllowedKey(e.cfg, TxSeq(e.tx))
        /\ \A c \in Conns :
              ( /\ ReadConfig(c)
                /\ reqs[c].cfg.chain_id = env.CHAIN_ID
                /\ PubOfSecret(env.AGG_SECRET) # AllowedKey(reqs[c].cfg, reqs[c].lastSeq.v + 1) )
              => (RespIs(c, 400, "AggregatorKeyMismatch") /\ ~Submitted(c))

\* the local key is refused at the cliff: seq has reached activation_seq
C1_Witness ==
    /\ ~env.LOCAL_MODE
    /\ \E e \in txs : e.accepted /\ TxSeq(e.tx) < e.cfg.activation_seq
    /\ \E c \in Conns :
          /\ ReadConfig(c)
          /\ reqs[c].lastSeq.v + 1 = reqs[c].cfg.activation_seq
          /\ RespIs(c, 400, "AggregatorKeyMismatch")

\* C2: when the chain_id of the configuration record differs from the local
\* CHAIN_ID, /anchor answers 400 ChainIdMismatch and submits no transaction,
\* also when the local aggregator key is not the allowed one.
C2_ChainIdFirst ==
    \A c \in Conns :
        (ReadConfig(c) /\ reqs[c].cfg.chain_id # env.CHAIN_ID) =>
            (RespIs(c, 400, "ChainIdMismatch") /\ ~Submitted(c))

C2_Witness ==
    \E c \in Conns :
        /\ ReadConfig(c)
        /\ reqs[c].cfg.chain_id # env.CHAIN_ID
        /\ PubOfSecret(env.AGG_SECRET) # AllowedKey(reqs[c].cfg, reqs[c].lastSeq.v + 1)
        /\ RespIs(c, 400, "ChainIdMismatch")

\* C3: a non-local /anchor reads last_seq from the aggregator-state record (0
\* when the record is absent), and every transaction it submits carries
\* last_seq + 1 in the signed preimage, in the instruction payload and in the
\* seeds of the proof-record address.
C3_SeqIsLastSeqPlusOne ==
    [][ /\ \A c \in Conns :
              (reqs[c].pc = "anchor_begin" /\ reqs'[c].pc = "anchor_config") =>
                  reqs'[c].lastSeq =
                      Num(IF aggState = Undefined THEN 0 ELSE aggState.last_seq)
        /\ \A e \in txs' :
              /\ TxSeq(e.tx) = e.lastSeq + 1
              /\ TxDsSeq(e.tx) = e.lastSeq + 1
              /\ TxPdaSeq(e.tx) = e.lastSeq + 1 ]_vars

\* the record was absent, seq 1 was accepted, and a second request then read 1
C3_Witness ==
    /\ \E e \in txs : e.lastSeq = 0 /\ e.accepted /\ TxPdaSeq(e.tx) = 1
    /\ \E c \in Conns : IsAnchor(c) /\ reqs[c].lastSeq = Num(1)

\* ---------------------------------------------------- claims on SpecIndexer
CursorVal(x) == IF x = Null THEN 0 ELSE x.v
MaxOf(S) == CHOOSE m \in S : \A x \in S : x <= m
ScanDone == idxPc = "scan" /\ idxPc' = "reconcile"
ReconcileDone == idxPc = "reconcile" /\ idxPc' = "sleep"
ProofEnds == {a.end_slot : a \in {x \in accounts : x.kind = "proof"}}

\* C9: a completed scan leaves last_seen_slot = max(last_seen_slot before the
\* scan, largest end_slot among the proof records on the ledger); no step
\* lowers last_seen_slot; and every value it is set to is the end_slot of an
\* indexed proof record.
C9_CursorIsMaxEndSlot ==
    [][ /\ ScanDone =>
              CursorVal(indexerState'.last_seen_slot) =
                  MaxOf({CursorVal(indexerState.last_seen_slot)} \cup ProofEnds)
        /\ CursorVal(indexerState'.last_seen_slot) >= CursorVal(indexerState.last_seen_slot)
        /\ indexerState'.last_seen_slot # indexerState.last_seen_slot =>
              \E r \in proofsTable' : r.end_slot = CursorVal(indexerState'.last_seen_slot)
      ]_vars

\* the row r is no longer in the table after the step
Gone(r) == \A q \in proofsTable' : q.key # r.key
AgeOver60(r) == now - r.ts * 1000 > 60000
LedgerReport(r) == statusOf(sigStatus, r.txid)

\* C10 as stated: a row is deleted exactly when it is pending (level < 2), the
\* ledger has no record of its signature and it is older than 60 s; a row
\* whose signature the ledger reports is never deleted.
C10_DeletedIffUnknownAndOld ==
    [][\A r \in proofsTable :
          LET dropped == /\ r.commitment_level < 2
                         /\ LedgerReport(r) = Null
                         /\ AgeOver60(r)
          IN /\ Gone(r) => dropped
             /\ (ReconcileDone /\ dropped) => Gone(r)
             /\ LedgerReport(r) # Null => ~Gone(r)]_vars

\* C10 amended: a row is deleted exactly when it is pending (level < 2), its
\* txid is not empty, the ledger reports for its signature either nothing or a
\* failed transaction, and it is older than 60 s; a row whose signature the
\* ledger reports without an error is never deleted.
C10_DeletedIffDroppedOrFailed ==
    [][\A r \in proofsTable :
          LET x == LedgerReport(r)
              dropped == /\ r.commitment_level < 2
                         /\ r.txid # ""
                         /\ (x = Null \/ x.err)
                         /\ AgeOver60(r)
          IN /\ Gone(r) => dropped
             /\ (ReconcileDone /\ dropped) => Gone(r)
             /\ (x # Null /\ ~x.err) => ~Gone(r)]_vars

\* reconciliation has deleted a row whose transaction the ledger reports as failed
C10_Witness ==
    /\ idxPc = "sleep"
    /\ \E d \in idxLog.deleted : d.status # Null /\ d.status.err
    /\ \E r \in proofsTable : r.txid = ""

\* C11: the commitment_level of a stored proof row never decreases from one
\* state to the next, and a row that has reached finalized (2) stays in the
\* table unmodified.
C11_LevelOnlyForward ==
    [][\A r \in proofsTable :
          /\ \A q \in proofsTable' :
                q.key = r.key => q.commitment_level >= r.commitment_level
          /\ r.commitment_level = 2 => r \in proofsTable']_vars

\* ----------------------------------------------------- claims on SpecStore
\* C12: the proofs table holds at most one row per (proof_hash, seq); an
\* upsert of a tuple whose key is already stored changes the commitment_level
\* of that row to the tuple's and nothing else: every other column of the row
\* (txid, artifact_id, ...) and every other row stay as they were.
C12_UpsertTouchesLevelOnly ==
    [][ /\ \A r, q \in proofsTable' : r.key = q.key => r = q
        /\ LET u == idxLog'.upsert IN
           (u # Null /\ \E r \in proofsTable : r.key = u.tuple.key) =>
              /\ \A r \in proofsTable :
                    r.key # u.tuple.key => r \in proofsTable'
              /\ \A r \in proofsTable :
                    r.key = u.tuple.key =>
                        [r EXCEPT !.commitment_level = u.tuple.commitment_level]
                            \in proofsTable'
              /\ Cardinality(proofsTable') = Cardinality(proofsTable) ]_vars

\* a second row is stored, and the last upsert met its own key with another
\* txid and another artifact_id than the stored ones
C12_Witness ==
    /\ idxLog.upsert # Null
    /\ Cardinality(proofsTable) = 2
    /\ \E r \in proofsTable :
          /\ r.key = idxLog.upsert.tuple.key
          /\ r.txid # idxLog.upsert.tuple.txid
          /\ r.artifact_id # idxLog.upsert.tuple.artifact_id
          /\ r.commitment_level = idxLog.upsert.tuple.commitment_level


\* C13: the account-change path never inserts, updates or deletes a row of
\* proofsTable: a notification carrying a proof record writes nothing, one
\* carrying a validator record writes exactly the row of that validator, and a
\* row of a new key appears in proofsTable only in a step of scanOnce.
StreamStep == idxLog'.event # Null /\ idxLog'.event # idxLog.event

C13_StreamNeverWritesProofs ==
    [][ /\ StreamStep =>
              LET a == idxLog'.event
              IN /\ proofsTable' = proofsTable
                 /\ indexerState' = indexerState
                 /\ a.kind = "proof" => validatorsTable' = validatorsTable
                 /\ a.kind = "validator" =>
                       /\ \A r \in validatorsTable : r.pubkey # a.pubkey => r \in validatorsTable'
                       /\ \A r \in validatorsTable' :
                             r.pubkey # a.pubkey => r \in validatorsTable
                       /\ Cardinality({r \in validatorsTable' : r.pubkey = a.pubkey}) = 1
                       /\ \A r \in validatorsTable' :
                             r.pubkey = a.pubkey =>
                                r.status = a.status /\ r.num_accepts = a.num_accepts
        /\ (\E r \in proofsTable' : \A q \in proofsTable : q.key # r.key) =>
              idxPc \in {"scan", "scan_loop"} /\ idxPc' # idxPc ]_vars

C13_Witness ==
    /\ idxLog.event # Null
    /\ idxLog.event.kind = "proof"
    /\ \A r \in proofsTable : r.key # idxLog.event.key
    /\ validatorsTable # {}


\* C14: a cycle runs scanOnce and then reconcilePending, and the callback of a
\* notification writes only outside a cycle: no callback write lands while a
\* scan or a reconciliation is under way, and so no step replaces a stored
\* validator row by an older version of the record (num_accepts only grows on
\* the ledger).
InCycle == idxPc \in {"scan_loop", "reconcile"}

NoStaleValidator ==
    \A r \in validatorsTable, q \in validatorsTable' :
       r.pubkey = q.pubkey => q.num_accepts >= r.num_accepts

C14_StreamSerializedBehindScan ==
    [][ /\ (StreamStep /\ validatorsTable' # validatorsTable) => ~InCycle
        /\ NoStaleValidator ]_vars


\* C15: of two /anchor requests that read the same last_seq the ledger accepts
\* at most one, and the other is not answered with the ledger's rejection: it
\* reads last_seq again and submits with the next seq.
C15_LoserRetries ==
    /\ \A e1, e2 \in txs :
          (e1.rid # e2.rid /\ e1.lastSeq = e2.lastSeq) => ~(e1.accepted /\ e2.accepted)
    /\ \A c \in Conns :
          (IsAnchor(c) /\ Submitted(c)) => ~RespIs(c, 400, "NonMonotonicSeq")


\* C16: with LOCAL_MODE set, /anchor neither reads the ledger nor submits to
\* it, its answer carries the transaction id LOCAL-<hex of the DS digest>, and
\* the answers carry seq 1, 2, 3, ... in order: the k-th answer carries k.
LocalAnswers == {a \in answers : a.status = 200 /\ a.body.kind = "anchored"}

LocalAnswered(c) ==
    /\ reqs[c].pc = "anchor_begin"
    /\ reqs'[c].pc = "done"
    /\ reqs'[c].resp.status = 200

C16_LocalSeqDense ==
    [][ env.LOCAL_MODE =>
          /\ txs' = {}
          /\ \A c \in Conns : reqs'[c].lastSeq = Undefined /\ reqs'[c].cfg = Undefined
          /\ \A c \in Conns :
                LocalAnswered(c) =>
                   /\ reqs'[c].resp.body.transaction_id = localTxid(reqs'[c].resp.body.ds_hash)
                   /\ reqs'[c].resp.body.seq = Cardinality(LocalAnswers) + 1 ]_vars


\* C17: mapProgramError answers for every input; a message carrying the name
\* or the numeric code of one listed verifier error is mapped to that entry
\* (400, and 403 for Paused), a message carrying none of them to
\* 500 AnchorSubmitFailed, and the answer repeats the message.
VerifierErrors ==
    { <<"BadEd25519Order", <<"6", "0", "1", "5">>, 400>>,
      <<"BadDomainSeparation", <<"6", "0", "1", "6">>, 400>>,
      <<"NonMonotonicSeq", <<"6", "0", "1", "2">>, 400>>,
      <<"RangeOverlap", <<"6", "0", "1", "3">>, 400>>,
      <<"ClockSkew", <<"6", "0", "1", "4">>, 400>>,
      <<"AggregatorMismatch", <<"6", "0", "0", "6">>, 400>>,
      <<"InvalidMint", <<"6", "0", "0", "0">>, 400>>,
      <<"Paused", <<"6", "0", "1", "0">>, 403>> }

SameLetters(a, b) == foldCase(a) = foldCase(b)

Carries(msg, e) ==
    \E i, j \in 1..Len(msg) :
       LET part == SubSeq(msg, i, j)
       IN \/ Len(part) = 1 /\ SameLetters(part[1], e[1])
          \/ part = e[2]

MessageOf(err) ==
    IF err \in {Undefined, Null} THEN <<err.t>>
    ELSE IF err.t = "Error" THEN err.message
    ELSE IF err.t = "string" THEN err.v
    ELSE DecimalOf(err.v)

MapReturned == call # Null /\ call.fn = "mapProgramError" /\ call.out # Null

C17_MapFollowsTable ==
    MapReturned =>
       LET msg == MessageOf(call.arg)
           carried == {e \in VerifierErrors : Carries(msg, e)}
           out == call.out
       IN /\ out.message = msg
          /\ carried = {} => out.http = 500 /\ out.code = "AnchorSubmitFailed"
          /\ \A e \in carried :
                carried = {e} => out.http = e[3] /\ out.code = e[1]
          /\ carried # {} => \E e \in carried : out.http = e[3] /\ out.code = e[1]

C17_Witness ==
    /\ MapReturned
    /\ call.arg = Error(<<"custom program error: ", "6", "0", "1", "0", "ms">>)
    /\ call.out.http = 403
    /\ call.out.code = "Paused"


\* C18: every error answer of the submitter carries a code of the taxonomy;
\* a failure inside /anchor (key file unreadable, stored artifact that cannot
\* be encoded, ledger error) is answered with one of these codes too.
Taxonomy ==
    {"BadRequest", "MissingIdempotencyKey", "NotFound", "ChainIdMismatch",
     "AggregatorKeyMismatch", "ConfigNotFound", "FetchLastSeqFailed", "RateLimitExceeded",
     "AuthRequired", "Forbidden", "AnchorSubmitFailed", "PathNotAllowed"}
    \cup {e[1] : e \in VerifierErrors}

C18_ErrorCodesInTaxonomy ==
    \A c \in Conns :
       (IsAnswered(c) /\ reqs[c].resp.body.kind = "error") =>
          reqs[c].resp.body.code \in Taxonomy


\* C19: a failure while decoding an account, or of a ledger or database call,
\* during scanOnce or reconcilePending does not end the indexer: the loop
\* goes on to its next cycle.
C19_IndexerSurvivesErrors == idxPc # "crashed"


\* C20: for u64 numbers and 32-byte program id and proof hash, buildDS returns
\* 110 bytes: the 14-byte literal zKSL/anchor/v1, chain_id as u64 LE,
\* program_id, proof_hash, start_slot, end_slot and seq as u64 LE, in that
\* order; equal inputs give equal preimages and inputs that differ in a field
\* give different preimages.
DSReturned == call # Null /\ call.fn = "buildDS" /\ call.out # Null

DSInputOk(p) ==
    /\ \A n \in {p.chainId, p.startSlot, p.endSlot, p.seq} : n >= 0
    /\ p.proofHash.w = 32

IsU64LE(chunk, n) == chunk.w = 8 /\ Len(chunk.v) = 8 /\ LEValue(chunk.v) = n

DSLayout(p, ds) ==
    /\ Len(ds) = 7
    /\ ds[1].w = 14 /\ ds[1].v = "zKSL/anchor/v1"
    /\ IsU64LE(ds[2], p.chainId)
    /\ ds[3].w = 32 /\ ds[3].v = p.programId
    /\ ds[4] = p.proofHash
    /\ IsU64LE(ds[5], p.startSlot)
    /\ IsU64LE(ds[6], p.endSlot)
    /\ IsU64LE(ds[7], p.seq)

C20_DSLayoutAndInjective ==
    DSReturned =>
       LET a == call.arg.a
           b == call.arg.b
           ra == call.out.a
           rb == call.out.b
       IN /\ DSInputOk(a) =>
                /\ ~ra.threw
                /\ ByteLen(ra.ret.ds) = 110
                /\ DSLayout(a, ra.ret.ds)
          /\ (DSInputOk(a) /\ DSInputOk(b)) =>
                /\ a = b => ra.ret.ds = rb.ret.ds
                /\ a # b => ra.ret.ds # rb.ret.ds

C20_Witness ==
    /\ DSReturned
    /\ DSInputOk(call.arg.a) /\ DSInputOk(call.arg.b)
    /\ call.arg.a.seq = 1 /\ call.arg.b = [call.arg.a EXCEPT !.seq = 2]
    /\ call.arg.a.startSlot = 256
    /\ call.out.a.ret.ds # call.out.b.ret.ds


\* C21: for inputs of the stated sizes encodeAnchorProofArgsBorsh returns 220
\* bytes: the 8-byte discriminator sha256("global:anchor_proof")[:8], then
\* artifact_id (16), proof_hash (32), seq (8), start_slot (8), end_slot (8),
\* artifact_len (4, u32 LE), state_root_before (32), state_root_after (32),
\* aggregator_pubkey (32), timestamp (8), ds_hash (32), in this order.
Returned(fn) == call # Null /\ call.fn = fn /\ call.out # Null

WellSized(p) ==
    /\ p.artifactId.w = 16 /\ p.proofHash32.w = 32
    /\ p.seqLe.w = 8 /\ p.startLe.w = 8 /\ p.endLe.w = 8
    /\ p.stateRootBefore.w = 32 /\ p.stateRootAfter.w = 32
    /\ p.timestampLe.w = 8 /\ p.dsHash32.w = 32

C21_PayloadLayout ==
    (Returned("encodeAnchorProofArgsBorsh") /\ WellSized(call.arg)) =>
       LET p == call.arg
           d == call.out
       IN /\ ByteLen(d) = 220
          /\ Len(d) = 12
          /\ d[1].w = 8 /\ d[1].v = [sha256_8 |-> "global:anchor_proof"]
          /\ d[2] = p.artifactId
          /\ d[3] = p.proofHash32
          /\ d[4] = p.seqLe
          /\ d[5] = p.startLe
          /\ d[6] = p.endLe
          /\ d[7].w = 4 /\ Len(d[7].v) = 4 /\ LEValue(d[7].v) = p.artifactLen
          /\ d[8] = p.stateRootBefore
          /\ d[9] = p.stateRootAfter
          /\ d[10].w = 32 /\ d[10].v = p.aggregatorPubkey
          /\ d[11] = p.timestampLe
          /\ d[12] = p.dsHash32

C21_Witness ==
    /\ Returned("encodeAnchorProofArgsBorsh")
    /\ WellSized(call.arg)
    /\ call.arg.artifactLen = 65537
    /\ call.arg.seqLe # call.arg.startLe
    /\ call.arg.startLe # call.arg.endLe

\* C22: every transaction the submitter has sent holds exactly three
\* instructions in this order: the compute-budget request for 200000 units, the
\* Ed25519 signature check whose message is the 110-byte preimage (the payload's
\* ds_hash is its digest), whose public key is the allowed key for the payload's
\* seq under the configuration the handler read and whose signature verifies
\* under that key, and the anchor-proof call whose payload names the same key.
C22_ThreeInstructions ==
    \A t \in txs :
       LET tx == t.tx
           allowed == allowedAgg(t.cfg, TxSeq(tx))
       IN /\ Len(tx) = 3
          /\ tx[1] = [program |-> "ComputeBudget", units |-> 200000]
          /\ tx[2].program = "Ed25519"
          /\ ByteLen(tx[2].message) = 110
          /\ blake3hash(tx[2].message) = tx[3].data[12]
          /\ tx[2].publicKey = allowed
          /\ Verifies(tx[2].signature, tx[2].message, allowed)
          /\ tx[3].program = PROGRAM_ID
          /\ tx[3].data[1] = sha256_8("global:anchor_proof")
          /\ TxPayloadAggregator(tx) = allowed

\* a transaction was sent and accepted under the next key of a configuration
\* whose two keys differ, at a seq from its activation_seq on
C22_Witness ==
    \E t \in txs : /\ TxSeq(t.tx) >= t.cfg.activation_seq
                   /\ t.tx[2].publicKey = t.cfg.next_aggregator_pubkey
                   /\ t.cfg.next_aggregator_pubkey # t.cfg.aggregator_pubkey
                   /\ t.accepted

\* C23: in every transaction sent, the payload's artifact_len is the byte size of
\* the canonical JSON file on disk of the artifact the payload names, whether
\* the artifact was in memory or was reloaded from disk by /anchor.
TxArtifactLen(tx) == LEValue(tx[3].data[7].v)

C23_ArtifactLenIsFileSize ==
    \A t \in txs, k \in DOMAIN files :
       uuidToBytes(k[2]) = t.tx[3].data[2] => TxArtifactLen(t.tx) = fileSize(files[k])

\* C24: for every hash of at least 16 bytes uuidFromHash32 returns a string of
\* the form 8-4-4-4-12 in lower-case hex that is a version 4, variant 10 UUID:
\* the high nibble of byte 6 is 0100, the top two bits of byte 8 are 10, and
\* the other 122 bits are those of the first 16 bytes of the hash.  The
\* artifact_id answered by /prove and /artifact is a function of the four
\* artifact fields alone: two answers for the same slots and the same roots
\* (up to letter case) carry the same identifier, whatever the route, the
\* or the caller.
HexVal(c) == (CHOOSE i \in 1..16 : HexDigits[i] = c) - 1

RECURSIVE fromHex(_)
fromHex(cs) ==
    IF cs = << >> THEN << >>
    ELSE << 16 * HexVal(cs[1]) + HexVal(cs[2]) >> \o fromHex(SubSeq(cs, 3, Len(cs)))

UuidDashes == {9, 14, 19, 24}
UuidBytes(u) == fromHex(SelectSeq([i \in 1..Len(u) |-> IF i \in UuidDashes THEN "-" ELSE u[i]],
                                  LAMBDA ch : ch # "-"))

UuidWellFormed(u, hash) ==
    /\ Len(u) = 36
    /\ \A i \in 1..36 : IF i \in UuidDashes THEN u[i] = "-"
                         ELSE \E d \in 1..16 : HexDigits[d] = u[i]
    /\ LET b == UuidBytes(u)
       IN /\ Len(b) = 16
          /\ b[7] \div 16 = 4
          /\ b[9] \div 64 = 2
          /\ b[7] % 16 = hash[7] % 16
          /\ b[9] % 64 = hash[9] % 64
          /\ \A i \in (1..16) \ {7, 9} : b[i] = hash[i]

Answered200(c) ==
    /\ reqs[c].pc = "done"
    /\ reqs[c].ran
    /\ reqs[c].resp.status = 200

SameFourFields(b1, b2) ==
    /\ b1.start_slot = b2.start_slot
    /\ b1.end_slot = b2.end_slot
    /\ normalizeHex32(b1.state_root_before.v) = normalizeHex32(b2.state_root_before.v)
    /\ normalizeHex32(b1.state_root_after.v) = normalizeHex32(b2.state_root_after.v)

C24_UuidV4FromFields ==
    /\ (Returned("uuidFromHash32") /\ Len(call.arg) >= 16) =>
          /\ ~call.out.threw
          /\ UuidWellFormed(call.out.ret, call.arg)
    /\ \A c1, c2 \in Conns :
          (Answered200(c1) /\ Answered200(c2)
              /\ SameFourFields(reqs[c1].req.body, reqs[c2].req.body)) =>
             reqs[c1].resp.body.artifact_id = reqs[c2].resp.body.artifact_id

\* a 32-byte hash with every bit set at offsets 6 and 8 was turned into a UUID,
\* and two requests on different routes, with roots in different letter case,
\* were answered with an identifier
C24_Witness ==
    /\ Returned("uuidFromHash32")
    /\ Len(call.arg) = 32 /\ call.arg[7] = 255 /\ call.arg[9] = 255
    /\ Answered200(1) /\ Answered200(2)
    /\ reqs[1].req.route # reqs[2].req.route
    /\ reqs[1].req.body # reqs[2].req.body
    /\ SameFourFields(reqs[1].req.body, reqs[2].req.body)

\* C25: the canonical text of a JSON value does not depend on the order of the
\* keys of any object in it, at any depth; it has no entry for a key whose
\* value is undefined nor for the keys __proto__, constructor and prototype,
\* and has every other entry; and it is stable under re-parsing:
\* canonicalize(parse(canonicalize(v))) = canonicalize(v).
Range(f) == {f[i] : i \in DOMAIN f}

RECURSIVE SameUpToOrder(_, _)
SameUpToOrder(v, w) ==
    IF v.t # w.t THEN FALSE
    ELSE IF v.t = "array"
    THEN /\ Len(v.items) = Len(w.items)
         /\ \A i \in 1..Len(v.items) : SameUpToOrder(v.items[i], w.items[i])
    ELSE IF v.t = "object"
    THEN /\ {e[1] : e \in Range(v.entries)} = {e[1] : e \in Range(w.entries)}
         /\ \A e \in Range(v.entries) : SameUpToOrder(e[2], Member(w, e[1]))
    ELSE v = w

\* the entries a parsed canonical text must hold, as a set, at every depth
RECURSIVE KeptEntries(_)
KeptEntries(v) ==
    IF v.t = "array" THEN [t |-> "array", items |-> [i \in 1..Len(v.items) |-> KeptEntries(v.items[i])]]
    ELSE IF v.t = "object"
    THEN [t |-> "object",
          members |-> {<< e[1], KeptEntries(e[2]) >> :
                         e \in {x \in Range(v.entries) :
                                   x[2].t # "undefined" /\ x[1] \notin PollutionKeys}}]
    ELSE v

C25_CanonicalizeStable ==
    Returned("canonicalize") =>
       LET v == call.arg
           text == call.out.ret
       IN /\ \A w \in JsonInputs : SameUpToOrder(v, w) => canonicalize(w) = text
          /\ KeptEntries(JSONparse(text)) = KeptEntries(v)
          /\ canonicalize(JSONparse(text)) = text

\* an object whose keys come in descending order, holding an inner object that
\* has a reordered twin, an undefined value and a dropped key, was canonicalized
C25_Witness ==
    /\ Returned("canonicalize")
    /\ call.arg = JObj(<< << "a", JObj(<< <<"b", Num(1)>>, <<"a", Num(2)>> >>) >>,
                          << "B", JObj(<< <<"9", JBool(TRUE)>>, <<"10", Num(2)>>,
                                          <<"u", Undefined>> >>) >> >>)
    /\ \E w \in JsonInputs : w # call.arg /\ SameUpToOrder(call.arg, w)

\* C26: decoding a ProofRecord or ValidatorRecord account loses nothing: the
\* decoded fields determine the account bytes, so that re-encoding them can
\* reproduce the account; in particular accounts that differ in the status byte
\* or in the i64 lock_ts decode to different fields.
C26_DecodeLossless ==
    /\ (Returned("decodeValidatorRecord") /\ ~call.out.threw) =>
          \A f \in ValidatorFields :
             decodeValidatorRecord(ValidatorAccountBytes(f)) = call.out
                => ValidatorAccountBytes(f) = call.arg
    /\ (Returned("decodeProofRecord") /\ ~call.out.threw /\ Len(call.arg) = 252) =>
          \A f \in ProofFields :
             decodeProofRecord(ProofAccountBytes(f)) = call.out
                => ProofAccountBytes(f) = call.arg

\* C27 (as the spec states it): the fields decodeProofRecord reads after the
\* discriminator are those of the instruction payload, in its order and widths,
\* so decoding the bytes returned by encodeAnchorProofArgsBorsh recovers the
\* value of each of the eleven payload fields.
U64Of(n) == [u64 |-> ConcreteBytes(LEBytes(n, 8))]

PayloadFieldsRecovered(f, r) ==
    /\ r.artifact_id = uuidFrom16(OpaqueBytes(f.artifactId, 16))
    /\ r.proof_hash = OpaqueBytes(f.proofHash, 32)
    /\ r.seq = U64Of(f.seq)
    /\ r.start_slot = U64Of(f.start)
    /\ r.end_slot = U64Of(f.end)
    /\ r.artifact_len = [u32 |-> ConcreteBytes(LEBytes(f.artifactLen, 4))]
    /\ r.state_root_before = OpaqueBytes(f.stateRootBefore, 32)
    /\ r.state_root_after = OpaqueBytes(f.stateRootAfter, 32)
    /\ r.aggregator_pubkey = bs58encode(OpaqueBytes(f.aggregator, 32))
    /\ r.timestamp = [i64 |-> ConcreteBytes(LEBytes(f.timestamp, 8))]
    /\ r.ds_hash = OpaqueBytes(f.dsHash, 32)

DecodedFrom(layout) ==
    /\ Returned("decodeProofRecord")
    /\ call.layout = layout

Replayed(c) ==
    /\ reqs[c].pc = "done"
    /\ reqs[c].req.method = "POST"
    /\ reqs[c].key # Null
    /\ ~reqs[c].wrapped

OnlyExpired(c) ==
    /\ Live(c)
    /\ reqs[c].req.method = "POST"
    /\ reqs[c].key # Null
    /\ reqs[c].prior # {}
    /\ \A a \in reqs[c].prior : reqs[c].at - a.ts >= IDEMP_TTL_MS

C28_CacheBoundedAndFresh ==
    /\ Len(idempotencyCache) <= IDEMP_MAX_ENTRIES
    /\ \A c \in Conns :
          /\ Replayed(c) =>
                \E a \in reqs[c].prior :
                   /\ reqs[c].at - a.ts < IDEMP_TTL_MS
                   /\ reqs[c].resp = [status |-> a.status, body |-> a.body]
          /\ OnlyExpired(c) => (reqs[c].wrapped /\ ~Replayed(c))

\* with the cache at its capacity, a POST under a key cached more than a day
\* before has run its handler, and a POST under a new key has been answered
C28_Witness ==
    /\ Len(idempotencyCache) = IDEMP_MAX_ENTRIES
    /\ \E c \in Conns : OnlyExpired(c) /\ reqs[c].ran /\ IsAnswered(c)
    /\ \E c \in Conns : /\ IsAnswered(c)
                        /\ reqs[c].prior = {}
                        /\ reqs[c].key \in CacheKeys(idempotencyCache)

\* C29 (as the spec states it): when the cache exceeds its capacity the entry
\* evicted is the least recently used one: an entry that was stored or replayed
\* more recently than another is not evicted while that other stays.
LastUse(k) ==
    LET at == {a.ts : a \in {x \in answers' : x.key = k}}
    IN CHOOSE t \in at : \A u \in at : u <= t

Evicted ==
    IF idempotencyCache' = idempotencyCache THEN {}
    ELSE LET kept == CacheKeys(idempotencyCache')
         IN {e \in Range(idempotencyCache) : e.key \notin kept /\ now - e.ts < IDEMP_TTL_MS}

C29_EvictsLeastRecentlyUsed ==
    [][\A e \in Evicted : \A k \in CacheKeys(idempotencyCache') :
          LastUse(k) >= LastUse(e.key)]_vars

\* C29 (amended): when the cache exceeds its capacity the entry evicted is the
\* one stored longest ago (smallest ts); a replay does not refresh an entry, so
\* an entry replayed more recently than another may be evicted while that
\* other stays.
C29_EvictsOldestStored ==
    [][\A e \in Evicted : \A x \in Range(idempotencyCache') : x.ts >= e.ts]_vars

\* the oldest entry was replayed and is gone; an entry never replayed is cached
C29_Witness ==
    /\ EarlierKey(1) \notin CacheKeys(idempotencyCache)
    /\ EarlierKey(2) \in CacheKeys(idempotencyCache)
    /\ \E a \in answers : a.key = EarlierKey(1) /\ a.ts > EarlierAnswer(2).ts
    /\ now < IDEMP_TTL_MS

\* C30: the validators table holds at most one row per pubkey, and an upsert of
\* a validator whose pubkey is already stored sets status, num_accepts and
\* last_seen of that row and leaves its escrow, lock_ts and unlock_ts, and
\* every other row, as they were.
UpsertValidatorStep == validatorsTable' # validatorsTable \/ idxLog' # idxLog

C30_UpsertValidatorFrame ==
    [][ /\ \A r, q \in validatorsTable' : r.pubkey = q.pubkey => r = q
        /\ UpsertValidatorStep =>
              LET v == idxLog'.upsert.tuple
              IN /\ \A r \in validatorsTable :
                       IF r.pubkey = v.pubkey
                       THEN [r EXCEPT !.status = v.status, !.num_accepts = v.num_accepts,
                                      !.last_seen = now] \in validatorsTable'
                       ELSE r \in validatorsTable'
                 /\ \A q \in validatorsTable' : q.pubkey # v.pubkey => q \in validatorsTable
      ]_vars

\* two validators are stored, and the last upsert met a stored row whose
\* escrow and lock_ts differ from the ones it carried, some time after a write
C30_Witness ==
    /\ Cardinality(validatorsTable) = 2
    /\ idxLog.upsert # Null
    /\ \E r \in validatorsTable :
          /\ r.pubkey = idxLog.upsert.tuple.pubkey
          /\ r.escrow # idxLog.upsert.tuple.escrow
          /\ r.lock_ts # idxLog.upsert.tuple.lock_ts
          /\ r.status = idxLog.upsert.tuple.status
          /\ r.last_seen = now
    /\ \E r \in validatorsTable : r.last_seen < now

\* C31: a scan that runs to its end upserts every proof record whose end_slot
\* is above the last_seen_slot read in that scan, with the signature the
\* ledger gives for its address and with commitment_level 2 when the ledger
\* reports that signature finalized, 1 when confirmed, 0 otherwise; it writes
\* last_signature only from such a record with level >= 1; and it leaves the
\* rows of a record with end_slot <= last_seen_slot as they were.
ReportedLevel(a) ==
    LET x == statusOf(sigStatus, a.sig)
    IN IF a.sig = "" \/ x = Null THEN 0
       ELSE IF x.confirmationStatus = "finalized" THEN 2
       ELSE IF x.confirmationStatus = "confirmed" THEN 1
       ELSE 0

RowsOf(table, a) == {r \in table : r.key = a.key}

TransientCodes ==
    {"FetchLastSeqFailed", "ConfigNotFound", "AnchorSubmitFailed", "NonMonotonicSeq",
     "RateLimitExceeded"}

TransientFailure(a) == a.body.kind = "error" /\ a.body.code \in TransientCodes

C32_TransientRetryProcessed ==
    \A c \in Conns :
       ( /\ Live(c)
         /\ reqs[c].req.method = "POST"
         /\ reqs[c].key # Null
         /\ reqs[c].prior # {}
         /\ \A a \in reqs[c].prior : TransientFailure(a) ) => reqs[c].wrapped

\* C33: a filesystem helper of the submitter performs its operation only on a
\* path that, resolved, lies inside one of its allow-listed directories
\* (ARTIFACT_DIR for writes, mkdir and listings, the key directories for key
\* files); on a target that resolves outside all of them it throws
\* PathNotAllowed and performs no operation; the day directory and the artifact
\* file the handlers build are inside ARTIFACT_DIR.
PathReturned ==
    /\ call # Null
    /\ call.fn \in {"safeWriteFile", "safeMkdir", "safeReaddir", "safeReadTextFile"}
    /\ call.out # Null

AllowListOf(c) ==
    IF c.fn = "safeReadTextFile" THEN Range(safeAllowedRootsForKeys(c.userProfile))
    ELSE {c.artifactDir}

\* the resolved path q is root itself or lies below it
LiesInside(root, q) ==
    LET r == pathResolve(root).segs
    IN /\ Len(q.segs) >= Len(r)
       /\ \A i \in 1..Len(r) : q.segs[i] = r[i]
       /\ \A i \in 1..Len(q.segs) : q.segs[i] # DotDot

C33_PathsStayInside ==
    PathReturned =>
       LET target == pathResolve(call.arg)
           roots == AllowListOf(call)
       IN /\ \A i \in 1..Len(call.out.ops) :
                /\ call.out.ops[i].path = target
                /\ \E root \in roots : LiesInside(root, call.out.ops[i].path)
          /\ (\A root \in roots : ~LiesInside(root, target)) =>
                /\ call.out.threw
                /\ call.out.message = "PathNotAllowed"
                /\ call.out.ops = << >>
          /\ call.fn # "safeReadTextFile" =>
                /\ LiesInside(call.artifactDir, pathResolve(DayDir(call.artifactDir)))
                /\ LiesInside(call.artifactDir, pathResolve(ArtifactTarget(call.artifactDir)))
          /\ call.arg \in {DayDir(call.artifactDir), ArtifactTarget(call.artifactDir)} =>
                ~call.out.threw

\* a write was refused on a path that climbs out of ARTIFACT_DIR through "..",
\* though it is written below it
C33_Witness ==
    /\ PathReturned
    /\ call.fn = "safeWriteFile"
    /\ call.artifactDir = PathOf(TRUE, << << "a" >> >>)
    /\ call.arg = PathOf(TRUE, << << "a" >>, DotDot, << "k" >> >>)
    /\ call.out.threw
    /\ call.out.ops = << >>

\* C34: two POSTs with the same Idempotency-Key of which the second arrives
\* before the first is answered (neither found an answer under the key when it
\* arrived) behave as one operation: both receive the same response, and the
\* local seq counter has advanced at most once per key in use.
Overlapping(c1, c2) ==
    /\ c1 # c2
    /\ Live(c1) /\ Live(c2)
    /\ reqs[c1].req.method = "POST" /\ reqs[c2].req.method = "POST"
    /\ reqs[c1].key # Null
    /\ reqs[c1].key = reqs[c2].key
    /\ reqs[c1].prior = {} /\ reqs[c2].prior = {}

KeysInUse ==
    {a.key : a \in answers} \cup {reqs[c].key : c \in {x \in Conns : Live(x)}}

C34_OverlapIsOneOperation ==
    /\ \A c1, c2 \in Conns :
          (Overlapping(c1, c2) /\ IsAnswered(c1) /\ IsAnswered(c2)) =>
              reqs[c1].resp = reqs[c2].resp
    /\ localSeq <= Cardinality(KeysInUse \ {Null})

\* C35: the idempotency cache never answers a POST with a response produced by
\* another endpoint: a POST /anchor answered from the cache does not receive
\* the artifact body of /prove or /artifact, and a POST /prove or /artifact
\* answered from the cache does not receive the body of an anchoring.
C35_ReplayStaysOnEndpoint ==
    \A c \in Conns :
       Replayed(c) =>
          /\ reqs[c].req.route = "/anchor" => reqs[c].resp.body.kind # "artifact"
          /\ reqs[c].req.route \in {"/prove", "/artifact"} =>
                reqs[c].resp.body.kind # "anchored"

\* C36: outside test mode, with API keys configured, a request to a protected
\* route (/prove, /artifact, /anchor) that carries no configured API key is
\* never answered with the body a protected route produced for an authorised
\* request, replays from the idempotency cache included: what it receives is
\* an error body.
Unauthorised(c) ==
    \/ typeof(reqs[c].req.apikey) = "undefined"
    \/ reqs[c].req.apikey.v \notin env.API_KEYS

C36_NoBodyWithoutApiKey ==
    (env.NODE_ENV # "test" /\ env.API_KEYS # {}) =>
        \A c \in Conns :
           ( /\ IsAnswered(c)
             /\ reqs[c].req.route \in ProtectedRoutes
             /\ Unauthorised(c) ) => reqs[c].resp.body.kind = "error"

\* C37: no accepted proof record is skipped by the last_seen_slot cursor: a
\* scan that runs to its end while the record is on the ledger, its transaction
\* reported by the ledger without error, leaves a row for it in the proofs
\* table, for every record whose end_slot exceeds the end_slot of every row
\* stored so far (the records arrive with growing end_slot), so that under
\* fair poll cycles every accepted record eventually has its row.
NewerThanStored(a) == \A r \in proofsTable : r.end_slot < a.end_slot

AcceptedRecord(a) ==
    /\ a.kind = "proof"
    /\ a.sig # ""
    /\ statusOf(sigStatus, a.sig) # Null
    /\ ~statusOf(sigStatus, a.sig).err

C37_ScanReachesEveryRecord ==
    [][ScanDone =>
          \A a \in {x \in accounts : AcceptedRecord(x)} :
             NewerThanStored(a) => \E r \in proofsTable' : r.key = a.key]_vars

\* C38: no row stays pending forever: a reconciliation that runs to its end
\* settles every pending row (commitment_level < 2) on which the ledger has
\* given its last word: a row whose signature is reported finalized is at
\* level 2 afterwards, and a row whose signature the ledger does not know, the
\* empty txid included, and that is older than 60 s is purged.
C38_ReconcileSettlesPending ==
    [][ReconcileDone =>
          \A r \in {x \in proofsTable : x.commitment_level < 2} :
             LET x == LedgerReport(r)
             IN /\ (x # Null /\ ~x.err /\ x.confirmationStatus = "finalized") =>
                      \E q \in proofsTable' : q.key = r.key /\ q.commitment_level = 2
                /\ (x = Null /\ AgeOver60(r)) => Gone(r)]_vars

\* C39: every artifact stored by /prove or /artifact, in the artifact map or
\* in a file, has 0 <= start_slot <= end_slot < 2^64 and a window of at most
\* MAX_SLOTS_PER_ARTIFACT slots, so that /anchor can write both slots as u64.
SlotsEncodable(a) ==
    /\ 0 <= a.start_slot
    /\ a.start_slot <= a.end_slot
    /\ ~u64leThrows(a.start_slot) /\ ~u64leThrows(a.end_slot)
    /\ a.end_slot - a.start_slot + 1 <= MAX_SLOTS_PER_ARTIFACT

=============================================================================
